---------------------------- MODULE Spec2Model ----------------------------
(***************************************************************************)
(* Machine-state transition engine of the olus code generator              *)
(* (codegen/src/machine): abstract values, states, the seven primitive     *)
(* transitions, their cost, the heuristic distance, the useful-transition  *)
(* generator and the A* planner State::transition_to.                      *)
(*                                                                         *)
(* Register numbers and allocation indices are 0-based as in the source;   *)
(* TLA+ sequences are 1-based, so allocation index i is allocations[i+1].  *)
(***************************************************************************)
EXTENDS Integers, Sequences, FiniteSets, TLC

VARIABLES
    initial,        \* planner: the state transition_to is called on (self)
    goal,           \* planner: the goal state
    pc,             \* planner: position inside transition_to
    parents,        \* planner: astar's map node -> (parent, cost, index)
    to_see,         \* planner: astar's binary heap of (estimated_cost, cost, node)
    nodes_explored, \* planner: the counter of optimizer.rs:13
    path,           \* planner: the node path astar returned
    result,         \* planner: the transitions transition_to returns
    tie,            \* planner: how the heap orders entries that compare equal
    max_allocs,     \* planner: the model stops expanding nodes larger than this
    cpu,            \* concrete machine: status, instruction index, registers, RAM
    sink_offset,    \* emitter: the count of the OffsetAssembler
    sink_bytes,     \* emitter: the buffer of the byte-recording sink
    state,          \* machine: the current abstract machine state
    prev,           \* machine: the state before the last transition
    last,           \* machine: the last transition applied
    steps,          \* machine: number of transitions applied so far
    cost            \* machine: summed cost of the transitions applied so far

planVars == <<initial, goal, pc, parents, to_see, nodes_explored, path, result,
              tie, max_allocs>>
machVars == <<state, prev, last, steps, cost>>
sinkVars == <<sink_offset, sink_bytes>>
vars == <<initial, goal, pc, parents, to_see, nodes_explored, path, result, tie,
          max_allocs, cpu, sink_offset, sink_bytes,
          state, prev, last, steps, cost>>

---------------------------------------------------------------------------
(* Bounds of the model                                                     *)

\* Registers modelled: r0 .. r(NumRegs-1) of the 16 of state.rs:14.
NumRegs == 4
\* Flags modelled: the first NumFlags of the 7 of state.rs:15.
NumFlags == 1
\* The model of the search stops (pc = "overflow") when astar pops a node
\* holding more allocations than this; the search itself has no such limit.
MaxAllocs == 2
\* The same limit for the searches on goals nothing satisfies.
MaxDivergeAllocs == 1
\* The machine walk applies at most this many transitions.
MaxSteps == 2
\* Rounds of the loop of State::satisfies the model follows.
MaxRounds == 6

Regs == 0 .. (NumRegs - 1)
Flags == 0 .. (NumFlags - 1)

---------------------------------------------------------------------------
(* Values (value.rs)                                                       *)

Unspecified == [tag |-> "U", a |-> 0, b |-> 0]
Literal(n) == [tag |-> "L", a |-> n, b |-> 0]
Symbol(s) == [tag |-> "S", a |-> s, b |-> 0]
Reference(index, offset) == [tag |-> "R", a |-> index, b |-> offset]

is_specified(v) == v # Unspecified

\* usize::max_value(), which the heuristic uses as "no cost found yet" and
\* "unreachable"; the model's integers are 32-bit, so it is the largest of
\* those. No cost of the model comes near it.
USIZE_MAX == 2147483647

\* A u64 as four 16-bit limbs, most significant first: the model's integers
\* are 32-bit, the operand of Set is not.
U64(n) == <<0, 0, n \div 65536, n % 65536>>

\* The number a u64 below 2^31 stands for.
FromU64(value) == value[3] * 65536 + value[4]

\* The test against i32::max_value() instead.
FitsI32(value) == value[1] = 0 /\ value[2] = 0 /\ value[3] < 32768

\* value <= u32::max_value()
FitsU32(value) == value[1] = 0 /\ value[2] = 0

\* A state with every register and flag Unspecified and no allocation
\* (State::default()).
DefaultState ==
    [registers |-> [r \in Regs |-> Unspecified],
     flags |-> [f \in Flags |-> Unspecified],
     allocations |-> << >>]

\* The concatenation of a sequence of sequences.
RECURSIVE Flatten(_)
Flatten(ss) == IF ss = << >> THEN << >> ELSE Head(ss) \o Flatten(Tail(ss))

\* Every value slot of a state, in the order of the StateIterator:
\* registers, flags, then the allocations' slots.
AllocSlots(s) ==
    UNION {{<<i, k>> : k \in 1 .. Len(s.allocations[i])} :
              i \in 1 .. Len(s.allocations)}

StateValues(s) ==
    {s.registers[r] : r \in Regs} \cup {s.flags[f] : f \in Flags}
        \cup {s.allocations[p[1]][p[2]] : p \in AllocSlots(s)}

---------------------------------------------------------------------------
(* State (state.rs)                                                        *)

\* The values the validity scan marks: registers and allocation slots.
ScannedValues(s) ==
    {s.registers[r] : r \in Regs}
        \cup {s.allocations[p[1]][p[2]] : p \in AllocSlots(s)}

\* is_valid without its loop over the flags.
is_valid_flags_unchecked(s) ==
    /\ \A v \in ScannedValues(s) : v.tag = "R" => v.a < Len(s.allocations)
    /\ \A i \in 1 .. Len(s.allocations) :
           \E v \in ScannedValues(s) : v.tag = "R" /\ v.a = i - 1

is_valid(s) ==
    /\ \A v \in ScannedValues(s) : v.tag = "R" => v.a < Len(s.allocations)
    /\ \A i \in 1 .. Len(s.allocations) :
           \E v \in ScannedValues(s) : v.tag = "R" /\ v.a = i - 1
    /\ \A f \in Flags :
           \/ s.flags[f].tag \in {"U", "S"}
           \/ s.flags[f].tag = "L" /\ s.flags[f].a <= 1

\* symbols scanning the registers only.
symbols_registers(s) ==
    {v.a : v \in {w \in {s.registers[r] : r \in Regs} : w.tag = "S"}}

symbols(s) == {v.a : v \in {w \in StateValues(s) : w.tag = "S"}}

\* literals scanning the registers only.
literals_registers(s) ==
    {v.a : v \in {w \in {s.registers[r] : r \in Regs} : w.tag = "L"}}

literals(s) == {v.a : v \in {w \in StateValues(s) : w.tag = "L"}}

alloc_sizes(s) == {Len(s.allocations[i]) : i \in 1 .. Len(s.allocations)}

\* reachable with the subset test the wrong way round.
reachable_swapped(s, g) == symbols(s) \subseteq symbols(g)

reachable(s, g) == symbols(g) \subseteq symbols(s)


\* valsat comparing the kind of a Literal or Symbol only.
valsat_kind(ours, g) ==
    CASE g.tag = "U" -> TRUE
      [] g.tag = "R" -> ours.tag = "R" /\ ours.b = g.b
      [] OTHER -> ours.tag = g.tag

\* The closure valsat inside State::satisfies: whether slot `ours` matches
\* goal slot `g`; a matched pair of References is checked later.
valsat(ours, g) ==
    CASE g.tag = "U" -> TRUE
      [] g.tag = "R" -> ours.tag = "R" /\ ours.b = g.b
      [] OTHER -> ours = g

\* The (our_index, goal_index) pairs valsat inserts into reference_checks
\* for two slot vectors of equal length.
RefPairs(ours, theirs, dom) ==
    {<<ours[k].a, theirs[k].a>> :
        k \in {j \in dom : theirs[j].tag = "R" /\ ours[j].tag = "R"
                              /\ ours[j].b = theirs[j].b}}

\* The allocation pair check with the length test off by one.
AllocPairOkShorter(s, g, p) ==
    LET ours == s.allocations[p[1] + 1]
        theirs == g.allocations[p[2] + 1]
    IN  /\ Len(ours) < Len(theirs)
        /\ \A k \in 1 .. Len(ours) : valsat(ours[k], theirs[k])

\* One allocation pair of the loop body of State::satisfies.
AllocPairOk(s, g, p) ==
    LET ours == s.allocations[p[1] + 1]
        theirs == g.allocations[p[2] + 1]
    IN  /\ Len(ours) = Len(theirs)
        /\ \A k \in 1 .. Len(theirs) : valsat(ours[k], theirs[k])

\* The while loop of State::satisfies: reference_checks is the work set,
\* checked the pairs already compared.
RECURSIVE SatLoop(_, _, _, _)
SatLoop(s, g, reference_checks, checked) ==
    IF reference_checks = {} THEN TRUE
    ELSE IF \E p \in reference_checks : ~AllocPairOk(s, g, p) THEN FALSE
    ELSE LET found == UNION {RefPairs(s.allocations[p[1] + 1],
                                      g.allocations[p[2] + 1],
                                      1 .. Len(g.allocations[p[2] + 1])) :
                                p \in reference_checks}
             done == checked \cup reference_checks
         IN  SatLoop(s, g, found \ done, done)

\* The pairs left to compare after a round without the removal of state.rs:
\* 207-211.
UncheckedAll(found, checked) == found

\* "Remove already checked relationships" (state.rs:207-211).
Unchecked(found, checked) == found \ checked

\* The while loop of State::satisfies with its rounds written down: the
\* sets of pairs to_check of the successive rounds, whether the loop ended
\* within MaxRounds rounds, and its result.
RECURSIVE SatRounds(_, _, _, _, _)
SatRounds(s, g, reference_checks, checked, rounds) ==
    IF reference_checks = {}
    THEN [ended |-> TRUE, result |-> TRUE, rounds |-> rounds]
    ELSE IF Len(rounds) >= MaxRounds
    THEN [ended |-> FALSE, result |-> FALSE, rounds |-> rounds]
    ELSE IF \E p \in reference_checks : ~AllocPairOk(s, g, p)
    THEN [ended |-> TRUE, result |-> FALSE,
          rounds |-> Append(rounds, reference_checks)]
    ELSE LET found == UNION {RefPairs(s.allocations[p[1] + 1],
                                      g.allocations[p[2] + 1],
                                      1 .. Len(g.allocations[p[2] + 1])) :
                                p \in reference_checks}
             done == checked \cup reference_checks
         IN  SatRounds(s, g, Unchecked(found, done), done,
                       Append(rounds, reference_checks))

satisfies(s, g) ==
    /\ \A r \in Regs : valsat(s.registers[r], g.registers[r])
    /\ \A f \in Flags : valsat(s.flags[f], g.flags[f])
    /\ SatLoop(s, g,
               RefPairs(s.registers, g.registers, Regs)
                   \cup RefPairs(s.flags, g.flags, Flags),
               {})

\* A value with its Reference index renamed by the permutation pi.
RenameValue(v, pi) ==
    IF v.tag = "R" /\ v.a < Len(pi) THEN Reference(pi[v.a + 1] - 1, v.b) ELSE v

\* The state with allocation i moved to index pi[i] and every Reference
\* renamed accordingly.
Renumber(s, pi) ==
    [registers |-> [r \in Regs |-> RenameValue(s.registers[r], pi)],
     flags |-> [f \in Flags |-> RenameValue(s.flags[f], pi)],
     allocations |->
         [i \in 1 .. Len(s.allocations) |->
             LET old == s.allocations[CHOOSE j \in 1 .. Len(pi) : pi[j] = i]
             IN  [k \in 1 .. Len(old) |-> RenameValue(old[k], pi)]]]

\* Two states that differ by a permutation of their allocations only.
SameUpToPermutation(s, o) ==
    /\ Len(s.allocations) = Len(o.allocations)
    /\ \E pi \in Permutations(1 .. Len(s.allocations)) : Renumber(s, pi) = o

NoValue == [tag |-> "None", a |-> 0, b |-> 0]

\* State::resolve_read / State::get_reference: the slot a register's
\* Reference plus `offset` names, or NoValue.
resolve_read(s, reg, offset) ==
    IF reg \notin Regs THEN NoValue
    ELSE LET v == s.registers[reg]
         IN  IF v.tag # "R" THEN NoValue
             ELSE IF v.a >= Len(s.allocations) THEN NoValue
             ELSE IF offset + v.b < 0 THEN NoValue
             ELSE IF offset + v.b >= Len(s.allocations[v.a + 1]) THEN NoValue
             ELSE s.allocations[v.a + 1][offset + v.b + 1]

get_reference(s, reg, offset) == resolve_read(s, reg, offset)

---------------------------------------------------------------------------
(* Transitions (transition.rs)                                             *)

\* A transition is a record of one shape: `value` is the u64 operand of
\* Set, `size` the operand of Alloc; a field a variant lacks is zero.
SetU64(dest, value) ==
    [op |-> "Set", dest |-> dest, source |-> 0, offset |-> 0,
     value |-> value, size |-> 0]
Set(dest, n) == SetU64(dest, U64(n))
Copy(dest, source) ==
    [op |-> "Copy", dest |-> dest, source |-> source, offset |-> 0,
     value |-> U64(0), size |-> 0]
Swap(dest, source) ==
    [op |-> "Swap", dest |-> dest, source |-> source, offset |-> 0,
     value |-> U64(0), size |-> 0]
Read(dest, source, offset) ==
    [op |-> "Read", dest |-> dest, source |-> source, offset |-> offset,
     value |-> U64(0), size |-> 0]
Write(dest, offset, source) ==
    [op |-> "Write", dest |-> dest, source |-> source, offset |-> offset,
     value |-> U64(0), size |-> 0]
Alloc(dest, sz) ==
    [op |-> "Alloc", dest |-> dest, source |-> 0, offset |-> 0,
     value |-> U64(0), size |-> sz]
Drop(dest) ==
    [op |-> "Drop", dest |-> dest, source |-> 0, offset |-> 0,
     value |-> U64(0), size |-> 0]

NoTransition ==
    [op |-> "None", dest |-> 0, source |-> 0, offset |-> 0,
     value |-> U64(0), size |-> 0]

valid_reg(reg) == reg \in Regs

applies(t, s) ==
    CASE t.op = "Set" -> valid_reg(t.dest)
      [] t.op = "Copy" ->
            /\ valid_reg(t.dest)
            /\ valid_reg(t.source)
            /\ is_specified(s.registers[t.source])
      [] t.op = "Swap" ->
            /\ valid_reg(t.dest)
            /\ valid_reg(t.source)
            /\ (is_specified(s.registers[t.dest])
                    \/ is_specified(s.registers[t.source]))
      [] t.op = "Read" ->
            /\ valid_reg(t.dest)
            /\ resolve_read(s, t.source, t.offset) # NoValue
            /\ is_specified(resolve_read(s, t.source, t.offset))
      [] t.op = "Write" ->
            /\ valid_reg(t.source)
            /\ is_specified(s.registers[t.source])
            /\ resolve_read(s, t.source, t.offset) # NoValue
      [] t.op = "Alloc" -> valid_reg(t.dest) /\ t.size > 0
      [] t.op = "Drop" -> valid_reg(t.dest) /\ s.registers[t.dest].tag = "R"
      [] OTHER -> FALSE

\* Whether the effect of a transition is defined on a state: its registers
\* exist, Read and Write name a slot of an allocation, Drop names an
\* allocation.
ApplyDefined(t, s) ==
    CASE t.op \in {"Set", "Alloc"} -> t.dest \in Regs
      [] t.op \in {"Copy", "Swap"} -> t.dest \in Regs /\ t.source \in Regs
      [] t.op = "Read" ->
            t.dest \in Regs /\ resolve_read(s, t.source, t.offset) # NoValue
      [] t.op = "Write" ->
            t.source \in Regs /\ resolve_read(s, t.dest, t.offset) # NoValue
      [] t.op = "Drop" ->
            /\ t.dest \in Regs
            /\ s.registers[t.dest].tag = "R"
            /\ s.registers[t.dest].a < Len(s.allocations)
      [] OTHER -> FALSE

\* The rewriting of Drop without the renumbering of the moved allocation.
DropRewriteStale(v, dropped, moved) ==
    IF v.tag # "R" THEN v
    ELSE IF v.a = dropped THEN Unspecified
    ELSE v

\* Drop's rewriting of one value: References to the dropped allocation
\* become Unspecified, References to the last allocation (moved into the
\* dropped index by swap-remove) are renumbered.
DropRewrite(v, dropped, moved) ==
    IF v.tag # "R" THEN v
    ELSE IF v.a = dropped THEN Unspecified
    ELSE IF v.a = moved THEN Reference(dropped, v.b)
    ELSE v

\* Vec::remove on the allocation vector: the later allocations move down.
ShiftRemove(allocs, index) ==
    [i \in 1 .. (Len(allocs) - 1) |->
        IF i <= index THEN allocs[i] ELSE allocs[i + 1]]

\* Vec::swap_remove on the allocation vector (index 0-based).
SwapRemove(allocs, index) ==
    LET n == Len(allocs)
    IN  [i \in 1 .. (n - 1) |-> IF i = index + 1 THEN allocs[n] ELSE allocs[i]]

\* A new allocation whose slots are zeroed.
FreshAllocationZeroed(sz) == [k \in 1 .. sz |-> Literal(0)]

\* vec![Unspecified; size]: the slots of a new allocation.
FreshAllocation(sz) == [k \in 1 .. sz |-> Unspecified]

\* The Copy arm of State::apply as machine_state.rs writes it out: the
\* destination receives the value, and a source that holds a Reference is
\* made Unspecified ("HACK to avoid some aliasing").
State_apply_Copy(s, dest, source) ==
    LET copied == [s EXCEPT !.registers[dest] = s.registers[source]]
    IN  IF copied.registers[source].tag = "R"
        THEN [copied EXCEPT !.registers[source] = Unspecified]
        ELSE copied

\* The effect of a transition on a state (Transition::apply, whose body in
\* transition.rs is a stub).
apply(t, s) ==
    CASE t.op = "Set" ->
            [s EXCEPT !.registers[t.dest] = Literal(FromU64(t.value))]
      [] t.op = "Copy" ->
            [s EXCEPT !.registers[t.dest] = s.registers[t.source]]
      [] t.op = "Swap" ->
            [s EXCEPT !.registers[t.dest] = s.registers[t.source],
                      !.registers[t.source] = s.registers[t.dest]]
      [] t.op = "Read" ->
            [s EXCEPT !.registers[t.dest] =
                          resolve_read(s, t.source, t.offset)]
      [] t.op = "Write" ->
            LET r == s.registers[t.dest]
            IN  [s EXCEPT !.allocations[r.a + 1][t.offset + r.b + 1] =
                              s.registers[t.source]]
      [] t.op = "Alloc" ->
            [s EXCEPT !.registers[t.dest] = Reference(Len(s.allocations), 0),
                      !.allocations =
                          Append(s.allocations, FreshAllocation(t.size))]
      [] t.op = "Drop" ->
            LET dropped == s.registers[t.dest].a
                moved == Len(s.allocations) - 1
                kept == SwapRemove(s.allocations, dropped)
            IN  [registers |->
                     [r \in Regs |-> DropRewrite(s.registers[r], dropped, moved)],
                 flags |->
                     [f \in Flags |-> DropRewrite(s.flags[f], dropped, moved)],
                 allocations |->
                     [i \in 1 .. Len(kept) |->
                         [k \in 1 .. Len(kept[i]) |->
                             DropRewrite(kept[i][k], dropped, moved)]]]
      [] OTHER -> s

---------------------------------------------------------------------------
(* Cost model (transition.rs, assembler.rs, allocator.rs)                  *)

\* Whether a byte displacement fits the signed 8-bit form.
FitsI8(n) == -128 <= n /\ n <= 127

\* `(8 * offset) as i32` (assembler.rs:76, 87): eight times the slot
\* offset, of which the cast keeps the low 32 bits as a signed number.
Disp32(offset) ==
    LET low == offset % 536870912
    IN  IF low < 268435456 THEN 8 * low ELSE 8 * (low - 536870912)

\* Bytes of `mov Rq, [Rq + disp]` / `mov [Rq + disp], Rq`: REX.W, opcode,
\* ModRM, the SIB byte a base register known at run time only always gets,
\* and the displacement.
MemSize(base, offset) == 4 + (IF FitsI8(Disp32(offset)) THEN 1 ELSE 4)

\* Bump::alloc: `mov Rd, [ram_start]` (REX, opcode, ModRM, SIB, disp32) then
\* `add dword [ram_start], imm` (opcode, ModRM, SIB, disp32, imm8 or imm32).
BumpAllocSize(reg, sz) == 8 + (IF sz <= 127 THEN 8 ELSE 11)

\* Transition::size: the bytes Transition::assemble emits.
size(t) ==
    CASE t.op = "Set" ->
            IF t.value = U64(0) THEN (IF t.dest < 8 THEN 2 ELSE 3)
            ELSE IF FitsU32(t.value) THEN (IF t.dest < 8 THEN 5 ELSE 6)
            ELSE 10
      [] t.op = "Copy" -> IF t.dest = t.source THEN 0 ELSE 3
      [] t.op = "Swap" ->
            IF t.dest = t.source THEN 0
            ELSE IF t.dest = 0 \/ t.source = 0 THEN 2
            ELSE 3
      [] t.op = "Read" -> MemSize(t.source, t.offset)
      [] t.op = "Write" -> MemSize(t.dest, t.offset)
      [] t.op = "Alloc" -> BumpAllocSize(t.dest, t.size)
      [] OTHER -> 0

\* A timing table in which an exchange takes as long as a store.
time_slow_swap(t) ==
    CASE t.op \in {"Set", "Copy"} -> 3
      [] t.op = "Read" -> 6
      [] t.op \in {"Swap", "Write"} -> 12
      [] t.op \in {"Alloc", "Drop"} -> 24
      [] OTHER -> 0

\* Transition::time
time(t) ==
    CASE t.op \in {"Set", "Copy"} -> 3
      [] t.op \in {"Swap", "Read"} -> 6
      [] t.op = "Write" -> 12
      [] t.op \in {"Alloc", "Drop"} -> 24
      [] OTHER -> 0

\* The cost with the weight on the size.
CostSizeFirst(t) == size(t) * 10000 + time(t)

\* Transition::cost
Cost(t) == time(t) * 100 + size(t)

---------------------------------------------------------------------------
(* Instruction emitter (assembler.rs, allocator.rs) and its two sinks      *)

\* ram_start, the address of the bump allocator's free-memory pointer.
RamStart == 12288

\* A call the emitter makes on its sink: the method and its argument (a
\* byte, a signed number, a u64, or the bytes handed to extend).
push(byte) == [fn |-> "push", arg |-> byte]
push_i8(n) == [fn |-> "push_i8", arg |-> n]
push_i32(value) == [fn |-> "push_i32", arg |-> value]
push_i64(value) == [fn |-> "push_i64", arg |-> value]
extend(bytes) == [fn |-> "extend", arg |-> bytes]

\* A signed 32-bit number as a u64 of which the low 32 bits count.
I32(n) == <<0, 0, (n \div 65536) % 65536, n % 65536>>

\* x86-64 encoding bytes: the REX prefix and the ModRM / SIB byte.
Rex(w, reg, rm) == 64 + 8 * w + 4 * (reg \div 8) + (rm \div 8)
ModRM(mod, reg, rm) == 64 * mod + 8 * (reg % 8) + (rm % 8)

\* `op Rq(reg), [Rq(base) + disp]`: with a base register known only at run
\* time the operand is encoded with a SIB byte.
MemOperand(opcode, reg, base, offset) ==
    <<push(Rex(1, reg, base)), push(opcode)>>
        \o (IF FitsI8(Disp32(offset))
            THEN <<push(ModRM(1, reg, 4)), push(ModRM(0, 4, base)),
                   push_i8(Disp32(offset))>>
            ELSE <<push(ModRM(2, reg, 4)), push(ModRM(0, 4, base)),
                   push_i32(I32(Disp32(offset)))>>)

\* Bump::alloc
BumpAlloc(ram_start, reg, sz) ==
    <<push(Rex(0, reg, 0)), push(139), push(ModRM(0, reg, 4)), push(37),
      push_i32(I32(ram_start))>>
        \o (IF sz <= 127
            THEN <<extend(<<131, 4, 37>>), push_i32(I32(ram_start)),
                   push_i8(sz)>>
            ELSE <<extend(<<129, 4, 37>>), push_i32(I32(ram_start)),
                   push_i32(I32(sz))>>)

\* Transition::assemble: the calls made on the sink, in order.
assemble(t) ==
    CASE t.op = "Set" ->
            IF t.value = U64(0) THEN
                IF t.dest < 8 THEN <<extend(<<49, ModRM(3, t.dest, t.dest)>>)>>
                ELSE <<push(Rex(0, t.dest, t.dest)), push(49),
                       push(ModRM(3, t.dest, t.dest))>>
            ELSE IF FitsU32(t.value) THEN
                IF t.dest < 8 THEN <<extend(<<184 + t.dest>>), push_i32(t.value)>>
                ELSE <<push(Rex(0, 0, t.dest)), push(184 + (t.dest % 8)),
                       push_i32(t.value)>>
            ELSE <<push(Rex(1, 0, t.dest)), push(184 + (t.dest % 8)),
                   push_i64(t.value)>>
      [] t.op = "Copy" ->
            IF t.dest = t.source THEN << >>
            ELSE <<push(Rex(1, t.source, t.dest)), push(137),
                   push(ModRM(3, t.source, t.dest))>>
      [] t.op = "Swap" ->
            IF t.dest = t.source THEN << >>
            ELSE IF t.dest = 0
            THEN <<push(Rex(1, 0, t.source)), push(144 + (t.source % 8))>>
            ELSE IF t.source = 0
            THEN <<push(Rex(1, 0, t.dest)), push(144 + (t.dest % 8))>>
            ELSE <<push(Rex(1, t.source, t.dest)), push(135),
                   push(ModRM(3, t.source, t.dest))>>
      [] t.op = "Read" -> MemOperand(139, t.dest, t.source, t.offset)
      [] t.op = "Write" -> MemOperand(137, t.source, t.dest, t.offset)
      [] t.op = "Alloc" -> BumpAlloc(RamStart, t.dest, t.size)
      [] OTHER -> << >>

\* OffsetAssembler with push_i32 counting two bytes.
OffsetAssemblerShort(n, call) ==
    CASE call.fn = "extend" -> n + Len(call.arg)
      [] call.fn = "push" -> n + 1
      [] call.fn = "push_i8" -> n + 1
      [] call.fn = "push_i32" -> n + 2
      [] call.fn = "push_i64" -> n + 8
      [] OTHER -> n

\* OffsetAssembler: the offset after one call.
OffsetAssembler(n, call) ==
    CASE call.fn = "extend" -> n + Len(call.arg)
      [] call.fn = "push" -> n + 1
      [] call.fn = "push_i8" -> n + 1
      [] call.fn = "push_i32" -> n + 4
      [] call.fn = "push_i64" -> n + 8
      [] OTHER -> n

\* The little-endian bytes of the low `n` bytes of a u64.
LittleEndian(value, n) ==
    [i \in 1 .. n |->
        LET limb == value[4 - ((i - 1) \div 2)]
        IN  IF i % 2 = 1 THEN limb % 256 ELSE limb \div 256]

\* The byte-recording sink: the buffer after one call.
Recorder(buffer, call) ==
    CASE call.fn = "extend" -> buffer \o call.arg
      [] call.fn = "push" -> Append(buffer, call.arg)
      [] call.fn = "push_i8" -> Append(buffer, call.arg % 256)
      [] call.fn = "push_i32" -> buffer \o LittleEndian(call.arg, 4)
      [] call.fn = "push_i64" -> buffer \o LittleEndian(call.arg, 8)
      [] OTHER -> buffer

\* A sequence of calls made on a sink that is in state `sink`.
RECURSIVE Feed(_, _, _)
Feed(Sink(_, _), sink, calls) ==
    IF calls = << >> THEN sink
    ELSE Feed(Sink, Sink(sink, Head(calls)), Tail(calls))

---------------------------------------------------------------------------
(* The concrete machine the emitted code runs on                           *)

\* Bytes of RAM modelled, from RamStart on.
RamBytes == 48

RamAddrs == RamStart .. (RamStart + RamBytes - 1)

\* A 64-bit word is its eight bytes, least significant first.
Word(n) == LittleEndian(U64(n), 8)

\* Words that are addresses of the modelled RAM have two significant bytes.
IsAddress(word) == \A i \in 3 .. 8 : word[i] = 0
Address(word) == word[1] + 256 * word[2]

InRam(addr, n) == RamStart <= addr /\ addr + n <= RamStart + RamBytes

Load(ram, addr, n) == [i \in 1 .. n |-> ram[addr + i - 1]]

Store(ram, addr, bytes) ==
    [a \in RamAddrs |->
        IF addr <= a /\ a < addr + Len(bytes) THEN bytes[a - addr + 1]
        ELSE ram[a]]

\* A 32-bit register write clears the upper half of the 64-bit register.
ZeroExtend(bytes) == [i \in 1 .. 8 |-> IF i <= Len(bytes) THEN bytes[i] ELSE 0]

\* 32-bit addition of a small number to four little-endian bytes.
Add32(b, n) ==
    LET lo == b[1] + 256 * b[2] + n
        hi == (b[3] + 256 * b[4] + (lo \div 65536)) % 65536
    IN  <<lo % 256, (lo \div 256) % 256, hi % 256, hi \div 256>>

\* The run-time value a symbol stands for, and the content of a register
\* or slot the abstract state does not specify.
SymbolWord(s) == <<s % 256, 171, 205, 0, 0, 0, 0, 0>>
JunkWord == [i \in 1 .. 8 |-> 238]

\* An initial RAM whose free-memory pointer points at itself.
initial_ram_at_head(ram_start) == Word(ram_start)

\* initial_ram (allocator.rs:4-12): the RAM image before any code ran, one
\* qword holding the free-memory pointer ram_start + 4.
initial_ram(ram_start) == Word(ram_start + 4)

\* The address of allocation `index` when the allocations of s lie one
\* after the other, eight bytes a slot, from the first free address on.
Base(s, index) ==
    Address(initial_ram(RamStart))
        + 8 * Len(Flatten(SubSeq(s.allocations, 1, index)))

ValueWord(s, v) ==
    CASE v.tag = "L" -> Word(v.a)
      [] v.tag = "S" -> SymbolWord(v.a)
      [] v.tag = "R" -> Word(Base(s, v.a) + 8 * v.b)
      [] OTHER -> JunkWord

\* The machine before any code ran.
CpuOff ==
    [status |-> "off", ip |-> 0,
     regs |-> [r \in Regs |-> Word(0)],
     ram |-> [a \in RamAddrs |-> 0]]

\* A concrete machine that holds the abstract state s: registers by value,
\* allocations in RAM behind the free-memory pointer of initial_ram, which
\* points past the last of them.
Concretise(s) ==
    LET slots == Flatten(s.allocations)
        head == Word(Base(s, Len(s.allocations)))
    IN  [status |-> "run", ip |-> 1,
         regs |-> [r \in Regs |-> ValueWord(s, s.registers[r])],
         ram |-> [a \in RamAddrs |->
                    LET off == a - Address(initial_ram(RamStart))
                    IN  IF off < 0 THEN head[a - RamStart + 1]
                        ELSE IF off \div 8 < Len(slots)
                        THEN ValueWord(s, slots[(off \div 8) + 1])[(off % 8) + 1]
                        ELSE 0]]

Fault(c) == [c EXCEPT !.status = "fault"]

\* The effect of the instructions Transition::assemble emits for t.
execute(t, c) ==
    CASE t.op = "Set" -> [c EXCEPT !.regs[t.dest] = LittleEndian(t.value, 8)]
      [] t.op = "Copy" -> [c EXCEPT !.regs[t.dest] = c.regs[t.source]]
      [] t.op = "Swap" ->
            [c EXCEPT !.regs[t.dest] = c.regs[t.source],
                      !.regs[t.source] = c.regs[t.dest]]
      [] t.op = "Read" ->
            LET addr == Address(c.regs[t.source]) + 8 * t.offset
            IN  IF IsAddress(c.regs[t.source]) /\ InRam(addr, 8)
                THEN [c EXCEPT !.regs[t.dest] = Load(c.ram, addr, 8)]
                ELSE Fault(c)
      [] t.op = "Write" ->
            LET addr == Address(c.regs[t.dest]) + 8 * t.offset
            IN  IF IsAddress(c.regs[t.dest]) /\ InRam(addr, 8)
                THEN [c EXCEPT !.ram = Store(c.ram, addr, c.regs[t.source])]
                ELSE Fault(c)
      [] t.op = "Alloc" ->
            LET head == Load(c.ram, RamStart, 4)
            IN  [c EXCEPT !.regs[t.dest] = ZeroExtend(head),
                          !.ram = Store(c.ram, RamStart, Add32(head, t.size))]
      [] OTHER -> c

\* Whether `word` of machine c holds what goal value gv prescribes: the
\* literal, the symbol's value, or the address of slot gv.b of eight-byte
\* slots that hold what the goal allocation prescribes. `seen` are the
\* (address, allocation) pairs under comparison already.
RECURSIVE Holds(_, _, _, _, _)
Holds(c, g, word, gv, seen) ==
    CASE gv.tag = "U" -> TRUE
      [] gv.tag = "L" -> word = Word(gv.a)
      [] gv.tag = "S" -> word = SymbolWord(gv.a)
      [] OTHER ->
            /\ IsAddress(word)
            /\ gv.a < Len(g.allocations)
            /\ LET base == Address(word) - 8 * gv.b
                   slots == g.allocations[gv.a + 1]
               IN  \/ <<base, gv.a>> \in seen
                   \/ \A k \in 1 .. Len(slots) :
                          \/ slots[k].tag = "U"
                          \/ /\ InRam(base + 8 * (k - 1), 8)
                             /\ Holds(c, g, Load(c.ram, base + 8 * (k - 1), 8),
                                      slots[k], seen \cup {<<base, gv.a>>})

---------------------------------------------------------------------------
(* Heuristic distance (optimizer.rs)                                       *)

Min(a, b) == IF a <= b THEN a ELSE b

SetMin(S) == CHOOSE x \in S : \A y \in S : x <= y

\* Option<Register>::None
NoDest == 0 - 1

\* What register_set_cost and min_distance yield when the assertion of
\* optimizer.rs:162 fails.
PANIC == -1

\* min(Copy{r0, r0}.cost(), Swap{r0, r0}.cost())
MoveCost == Min(Cost(Copy(0, 0)), Cost(Swap(0, 0)))

\* The values stored in allocation slots.
AllocValues(s) == {s.allocations[p[1]][p[2]] : p \in AllocSlots(s)}

register_set_cost(s, dest, value) ==
    IF ~is_specified(value) THEN 0
    ELSE IF value.tag = "R" THEN
        IF dest # NoDest /\ s.registers[dest].tag = "R" THEN 0 ELSE MoveCost
    ELSE
        LET holders == {source \in Regs : s.registers[source] = value}
            from(source) ==
                IF dest = NoDest \/ dest = source THEN 0
                ELSE Min(Cost(Copy(dest, source)), Cost(Swap(dest, source)))
            copied == IF holders = {} THEN USIZE_MAX
                      ELSE SetMin({from(source) : source \in holders})
            d == IF dest = NoDest THEN 0 ELSE dest
            lit == IF value.tag = "L" THEN Min(copied, Cost(Set(d, value.a)))
                   ELSE copied
            read_cost == Cost(Read(d, 0, 0))
        IN  IF copied = 0 THEN 0
            ELSE IF lit <= read_cost THEN lit
            ELSE IF value \in AllocValues(s) THEN read_cost
            ELSE IF lit = USIZE_MAX THEN PANIC
            ELSE lit

\* Sum of f over a finite set of indices or slots.
RECURSIVE SumOver(_, _)
SumOver(f, S) ==
    IF S = {} THEN 0
    ELSE LET x == CHOOSE y \in S : TRUE
         IN  f[x] + SumOver(f, S \ {x})

\* The cost of constructing goal allocation `galloc` from scratch.
ConstructCost(s, galloc) ==
    Cost(Alloc(0, Len(galloc))) - MoveCost
        + SumOver([k \in 1 .. Len(galloc) |->
                      IF is_specified(galloc[k])
                      THEN Cost(Write(0, 0, 0))
                               + register_set_cost(s, NoDest, galloc[k])
                      ELSE 0],
                  1 .. Len(galloc))

\* The cost of changing our allocation `ours` into goal allocation `galloc`.
ChangeCost(s, ours, galloc) ==
    SumOver([k \in 1 .. Len(galloc) |->
                IF ~is_specified(galloc[k]) \/ ours[k] = galloc[k] THEN 0
                ELSE Cost(Write(0, 0, 0))
                         + register_set_cost(s, NoDest, galloc[k])],
            1 .. Len(galloc))

AllocCost(s, galloc) ==
    SetMin({ConstructCost(s, galloc)} \cup
           {ChangeCost(s, s.allocations[i], galloc) :
               i \in {j \in 1 .. Len(s.allocations) :
                         Len(s.allocations[j]) = Len(galloc)}})

\* Whether some register_set_cost call of min_distance fails its assertion.
MinDistancePanics(s, g) ==
    \/ \E r \in Regs : register_set_cost(s, r, g.registers[r]) = PANIC
    \/ \E p \in AllocSlots(g) :
           register_set_cost(s, NoDest, g.allocations[p[1]][p[2]]) = PANIC

min_distance(s, g) ==
    IF ~reachable(s, g) THEN USIZE_MAX
    ELSE IF MinDistancePanics(s, g) THEN PANIC
    ELSE SumOver([r \in Regs |-> register_set_cost(s, r, g.registers[r])], Regs)
         + SumOver([i \in 1 .. Len(g.allocations) |->
                       AllocCost(s, g.allocations[i])],
                   1 .. Len(g.allocations))

---------------------------------------------------------------------------
(* Useful-transition generator (optimizer.rs)                              *)

\* A finite set of numbers as an ascending sequence.
RECURSIVE Ascending(_)
Ascending(S) ==
    IF S = {} THEN << >>
    ELSE <<SetMin(S)>> \o Ascending(S \ {SetMin(S)})

\* f(r) for r = 0 .. NumRegs - 1, concatenated.
PerReg(f) == Flatten([i \in 1 .. NumRegs |-> f[i - 1]])

\* The orders in which a hash set may hand out its elements.
Orderings(S) ==
    {q \in [1 .. Cardinality(S) -> S] :
        \A i, j \in 1 .. Cardinality(S) : q[i] = q[j] => i = j}

\* The iteration orders of the two hash sets useful_transitions walks:
\* goal.literals() and goal.alloc_sizes().
HashOrders(g) ==
    {[lits |-> l, sizes |-> z] :
        l \in Orderings(literals(g)), z \in Orderings(alloc_sizes(g))}

AscendingOrder(g) ==
    [lits |-> Ascending(literals(g)), sizes |-> Ascending(alloc_sizes(g))]

\* useful_transitions when the two hash sets iterate in the order `order`.
useful_transitions(s, g, order) ==
    LET lits == order.lits
        sizes == order.sizes
        sets == Flatten([i \in 1 .. Len(lits) |->
                    PerReg([dest \in Regs |-> <<Set(dest, lits[i])>>])])
        moves(source) ==
            PerReg([dest \in Regs |->
                (IF source # dest THEN <<Copy(dest, source)>> ELSE << >>)
                \o (IF source < dest /\ is_specified(s.registers[dest])
                    THEN <<Swap(dest, source)>> ELSE << >>)])
        memory(source) ==
            LET ref == s.registers[source]
                values == s.allocations[ref.a + 1]
            IN  Flatten([n \in 1 .. Len(values) |->
                    LET offset == (n - 1) - ref.b
                    IN  PerReg([dest \in Regs |->
                            (IF is_specified(get_reference(s, source, offset))
                             THEN <<Read(dest, source, offset)>> ELSE << >>)
                            \o (IF is_specified(s.registers[dest])
                                THEN <<Write(source, offset, dest)>>
                                ELSE << >>)])])
        bysource ==
            PerReg([source \in Regs |->
                IF ~is_specified(s.registers[source]) THEN << >>
                ELSE moves(source)
                     \o (IF s.registers[source].tag = "R"
                         THEN memory(source) ELSE << >>)])
        allocs == Flatten([i \in 1 .. Len(sizes) |->
                      PerReg([dest \in Regs |-> <<Alloc(dest, sizes[i])>>])])
        drops == PerReg([dest \in Regs |->
                     IF s.registers[dest].tag = "R"
                     THEN <<Drop(dest)>> ELSE << >>])
    IN  sets \o bysource \o allocs \o drops

---------------------------------------------------------------------------
(* A* planner (optimizer.rs, State::transition_to)                         *)

\* A heap that hands out its entries without regard to their estimate.
PopAny(heap) == heap

\* The heap entries astar may pop next: smallest estimated cost first; among
\* those the policy `tie` decides ("deepest": the largest cost so far, then
\* the oldest node; "oldest" / "newest": by the node's insertion index).
PopCandidates(heap) ==
    {e \in heap : \A o \in heap : e.estimated_cost <= o.estimated_cost}

Pop(heap, par, policy) ==
    LET cands == PopCandidates(heap)
        idx(e) == par[e.node].index
    IN  CASE policy = "oldest" ->
                CHOOSE e \in cands : \A o \in cands :
                    idx(e) < idx(o) \/ (idx(e) = idx(o) /\ e.cost <= o.cost)
          [] policy = "newest" ->
                CHOOSE e \in cands : \A o \in cands :
                    idx(e) > idx(o) \/ (idx(e) = idx(o) /\ e.cost <= o.cost)
          [] OTHER ->
                CHOOSE e \in cands : \A o \in cands :
                    \/ e.cost > o.cost
                    \/ e.cost = o.cost /\ idx(e) <= idx(o)

\* A path that forgets how `node` was reached.
ReversePathLast(par, node) == <<node>>

\* reverse_path: the nodes from the start to `node`, following the parents.
RECURSIVE ReversePath(_, _)
ReversePath(par, node) ==
    IF par[node].parent = << >> THEN <<node>>
    ELSE Append(ReversePath(par, par[node].parent[1]), node)

\* The body of astar's loop over the successors of `node`, reached at cost
\* `ncost`: the closure of optimizer.rs:16-38 applied to the useful
\* transitions `ts` in order, each kept successor entered into the parents
\* map and the heap. `acc` carries parents, heap, counter and failure.
RECURSIVE Successors(_, _, _, _, _)
Successors(ts, node, ncost, g, acc) ==
    IF ts = << >> \/ acc.panic THEN acc
    ELSE
        LET t == Head(ts)
            new_state == apply(t, node)
            new_cost == ncost + Cost(t)
            counted == [acc EXCEPT !.explored = @ + 1]
            keep == is_valid(new_state) /\ reachable(new_state, g)
            known == new_state \in DOMAIN acc.parents
            better == known /\ acc.parents[new_state].cost > new_cost
            h == min_distance(new_state, g)
            entry == [estimated_cost |-> new_cost + h, cost |-> new_cost,
                      node |-> new_state]
            next ==
                IF ~keep THEN counted
                ELSE IF known /\ ~better THEN counted
                ELSE IF h = PANIC THEN [counted EXCEPT !.panic = TRUE]
                ELSE IF known THEN
                    [counted EXCEPT
                        !.parents[new_state].parent = <<node>>,
                        !.parents[new_state].cost = new_cost,
                        !.heap = @ \cup {entry}]
                ELSE
                    [counted EXCEPT
                        !.parents = (new_state :>
                                        [parent |-> <<node>>, cost |-> new_cost,
                                         index |-> Cardinality(DOMAIN acc.parents)])
                                    @@ acc.parents,
                        !.heap = @ \cup {entry}]
        IN  Successors(Tail(ts), node, ncost, g, next)

\* The reconstruction loop without its test `dest == *to`.
RECURSIVE BestTransitionAnyDest(_, _, _, _, _)
BestTransitionAnyDest(ts, from, to, bestcost, best) ==
    IF ts = << >> THEN best
    ELSE LET t == Head(ts)
         IN  IF Cost(t) < bestcost
             THEN BestTransitionAnyDest(Tail(ts), from, to, Cost(t), t)
             ELSE BestTransitionAnyDest(Tail(ts), from, to, bestcost, best)

\* The reconstruction loop without its test `transition.cost() < cost`: the
\* last useful transition whose post-state equals `to`.
RECURSIVE BestTransitionLast(_, _, _, _, _)
BestTransitionLast(ts, from, to, bestcost, best) ==
    IF ts = << >> THEN best
    ELSE LET t == Head(ts)
         IN  IF apply(t, from) = to
             THEN BestTransitionLast(Tail(ts), from, to, Cost(t), t)
             ELSE BestTransitionLast(Tail(ts), from, to, bestcost, best)

\* The transition the reconstruction loop of optimizer.rs:50-62 picks for
\* the pair (from, to): the first of the cheapest useful transitions whose
\* post-state equals `to`; NoTransition when there is none.
RECURSIVE BestTransition(_, _, _, _, _)
BestTransition(ts, from, to, bestcost, best) ==
    IF ts = << >> THEN best
    ELSE LET t == Head(ts)
         IN  IF apply(t, from) = to /\ Cost(t) < bestcost
             THEN BestTransition(Tail(ts), from, to, Cost(t), t)
             ELSE BestTransition(Tail(ts), from, to, bestcost, best)

Reconstructed(nodes, g, order) ==
    [i \in 1 .. (Len(nodes) - 1) |->
        BestTransition(useful_transitions(nodes[i], g, order),
                       nodes[i], nodes[i + 1], USIZE_MAX, NoTransition)]

\* astar's loop as a function of the map of seen nodes and the heap: the
\* outcome of the search and the node path found.
RECURSIVE astar(_, _, _, _, _)
astar(par, heap, g, policy, order) ==
    IF heap = {} THEN [outcome |-> "no_path", path |-> << >>]
    ELSE
        LET e == Pop(heap, par, policy)
            acc == Successors(useful_transitions(e.node, g, order),
                              e.node, e.cost, g,
                              [parents |-> par, heap |-> heap \ {e},
                               explored |-> 0, panic |-> FALSE])
        IN  IF satisfies(e.node, g)
            THEN [outcome |-> "found", path |-> ReversePath(par, e.node)]
            ELSE IF Len(e.node.allocations) > MaxAllocs
            THEN [outcome |-> "overflow", path |-> << >>]
            ELSE IF e.cost > par[e.node].cost
            THEN astar(par, heap \ {e}, g, policy, order)
            ELSE IF acc.panic THEN [outcome |-> "panic", path |-> << >>]
            ELSE astar(acc.parents, acc.heap, g, policy, order)

\* State::transition_to as a function of its inputs, the heap's order among
\* equal entries and the iteration order of the hash sets.
transition_to(s, g, policy, order) ==
    IF ~reachable(s, g) THEN [outcome |-> "unreachable", transitions |-> << >>]
    ELSE
        LET found == astar(s :> [parent |-> << >>, cost |-> 0, index |-> 0],
                           {[estimated_cost |-> 0, cost |-> 0, node |-> s]},
                           g, policy, order)
            ts == Reconstructed(found.path, g, order)
        IN  IF found.outcome # "found"
            THEN [outcome |-> found.outcome, transitions |-> << >>]
            ELSE IF \E i \in 1 .. Len(ts) : ts[i] = NoTransition
            THEN [outcome |-> "no_reproduce", transitions |-> ts]
            ELSE [outcome |-> "done", transitions |-> ts]

\* The transitions of a sequence applied in order.
RECURSIVE ApplyAll(_, _)
ApplyAll(ts, s) ==
    IF ts = << >> THEN s ELSE ApplyAll(Tail(ts), apply(Head(ts), s))

RECURSIVE TotalCost(_)
TotalCost(ts) == IF ts = << >> THEN 0 ELSE Cost(Head(ts)) + TotalCost(Tail(ts))

---------------------------------------------------------------------------
(* Inputs                                                                  *)

\* A register file / flag file holding the given values in its first slots
\* and Unspecified in the others.
RegFile(vals) ==
    [r \in Regs |-> IF r < Len(vals) THEN vals[r + 1] ELSE Unspecified]
FlagFile(vals) ==
    [f \in Flags |-> IF f < Len(vals) THEN vals[f + 1] ELSE Unspecified]

MkState(regs, flags, allocs) ==
    [registers |-> RegFile(regs), flags |-> FlagFile(flags),
     allocations |-> allocs]

Case(i, g) == [initial |-> i, goal |-> g]

U == Unspecified
S1 == Symbol(1)
S2 == Symbol(2)
L3 == Literal(3)
R0 == Reference(0, 0)
R1 == Reference(1, 0)

\* The idle machine of the planner's specification.
MachineIdle ==
    /\ state = DefaultState
    /\ prev = DefaultState
    /\ last = NoTransition
    /\ steps = 0
    /\ cost = 0

\* The idle planner of the machine's specification.
PlannerIdle ==
    /\ pc = "idle"
    /\ parents = << >>
    /\ to_see = {}
    /\ nodes_explored = 0
    /\ path = << >>
    /\ result = << >>
    /\ tie = "deepest"
    /\ max_allocs = MaxAllocs
    /\ cpu = CpuOff

\* The unused sinks of the planner's and the machine's specification.
SinksIdle ==
    /\ sink_offset = 0
    /\ sink_bytes = << >>

---------------------------------------------------------------------------
(* The planner as a state machine                                          *)

\* optimizer.rs:10 and astar's set-up: the assertion that the goal is
\* reachable, then the start node enters the parents map and the heap.
Start ==
    /\ pc = "start"
    /\ IF reachable(initial, goal)
       THEN /\ pc' = "search"
            /\ parents' = (initial :> [parent |-> << >>, cost |-> 0, index |-> 0])
            /\ to_see' = {[estimated_cost |-> 0, cost |-> 0, node |-> initial]}
       ELSE /\ pc' = "unreachable"
            /\ UNCHANGED <<parents, to_see>>
    /\ UNCHANGED <<initial, goal, nodes_explored, path, result, tie, max_allocs>>
    /\ UNCHANGED <<cpu, sinkVars, machVars>>

\* astar pops a node that satisfies the goal and returns the path to it.
Found ==
    /\ pc = "search"
    /\ to_see # {}
    /\ LET e == Pop(to_see, parents, tie)
       IN  /\ satisfies(e.node, goal)
           /\ path' = ReversePath(parents, e.node)
           /\ to_see' = to_see \ {e}
    /\ pc' = "found"
    /\ UNCHANGED <<initial, goal, parents, nodes_explored, result, tie, max_allocs>>
    /\ UNCHANGED <<cpu, sinkVars, machVars>>

\* astar pops a node that does not satisfy the goal: a stale entry is
\* dropped, any other node is expanded. A failed assertion of the heuristic
\* ends the call.
Expand ==
    /\ pc = "search"
    /\ to_see # {}
    /\ \E order \in HashOrders(goal) :
       LET e == Pop(to_see, parents, tie)
           acc == Successors(useful_transitions(e.node, goal, order),
                             e.node, e.cost, goal,
                             [parents |-> parents, heap |-> to_see \ {e},
                              explored |-> nodes_explored, panic |-> FALSE])
       IN  /\ ~satisfies(e.node, goal)
           /\ Len(e.node.allocations) <= max_allocs
           /\ IF e.cost > parents[e.node].cost
              THEN /\ to_see' = to_see \ {e}
                   /\ UNCHANGED <<parents, nodes_explored, pc>>
              ELSE /\ to_see' = acc.heap
                   /\ parents' = acc.parents
                   /\ nodes_explored' = acc.explored
                   /\ pc' = IF acc.panic THEN "panic" ELSE "search"
    /\ UNCHANGED <<initial, goal, path, result, tie, max_allocs>>
    /\ UNCHANGED <<cpu, sinkVars, machVars>>

\* astar pops a node with more than max_allocs allocations that does not
\* satisfy the goal: the search would go on, the model of it stops here.
Overflow ==
    /\ pc = "search"
    /\ to_see # {}
    /\ LET e == Pop(to_see, parents, tie)
       IN  /\ ~satisfies(e.node, goal)
           /\ Len(e.node.allocations) > max_allocs
    /\ pc' = "overflow"
    /\ UNCHANGED <<initial, goal, parents, to_see, nodes_explored, path, result, tie, max_allocs>>
    /\ UNCHANGED <<cpu, sinkVars, machVars>>

\* The heap is empty: astar returns None and the expect of optimizer.rs:42
\* fails.
Exhausted ==
    /\ pc = "search"
    /\ to_see = {}
    /\ pc' = "no_path"
    /\ UNCHANGED <<initial, goal, parents, to_see, nodes_explored, path, result, tie, max_allocs>>
    /\ UNCHANGED <<cpu, sinkVars, machVars>>

\* optimizer.rs:49-68: a transition for every pair of consecutive nodes.
Reconstruct ==
    /\ pc = "found"
    /\ \E order \in HashOrders(goal) :
        /\ result' = Reconstructed(path, goal, order)
        /\ pc' = IF \E i \in 1 .. (Len(path) - 1) :
                        Reconstructed(path, goal, order)[i] = NoTransition
                 THEN "no_reproduce" ELSE "done"
    /\ UNCHANGED <<initial, goal, parents, to_see, nodes_explored, path, tie, max_allocs>>
    /\ UNCHANGED <<cpu, sinkVars, machVars>>

\* The code emitted for the returned transitions is about to run on a
\* machine that holds the initial state.
Boot ==
    /\ pc = "done"
    /\ cpu.status = "off"
    /\ cpu' = [Concretise(initial) EXCEPT
                  !.status = IF result = << >> THEN "halted" ELSE "run"]
    /\ UNCHANGED planVars
    /\ UNCHANGED <<sinkVars, machVars>>

\* The machine runs the code of the next transition.
Exec ==
    /\ cpu.status = "run"
    /\ LET c == execute(result[cpu.ip], cpu)
       IN  cpu' = [c EXCEPT
                      !.ip = cpu.ip + 1,
                      !.status = IF c.status = "fault" THEN "fault"
                                 ELSE IF cpu.ip = Len(result) THEN "halted"
                                 ELSE "run"]
    /\ UNCHANGED planVars
    /\ UNCHANGED <<sinkVars, machVars>>

---------------------------------------------------------------------------
(* Input families                                                          *)

\* Goals and initial states over two registers, without memory.
GridInitial == {MkState(<<a, b>>, << >>, << >>) : a \in {U, S1, S2, L3},
                                                   b \in {U, S1, S2, L3}}
GridGoal == {MkState(<<c, d>>, << >>, << >>) : c \in {U, S1, L3},
                                                d \in {U, S1, L3}}
GridCases == {Case(i, g) : i \in GridInitial, g \in GridGoal}

\* Goals that specify a flag, and states whose only copy of a symbol is in
\* a flag; none of them has an allocation.
FlagCases ==
    {Case(MkState(<<a>>, <<f>>, << >>), MkState(<<c, d>>, <<h>>, << >>)) :
        a \in {U, S2}, f \in {U, S1}, c \in {U, Literal(1)}, d \in {U, S1},
        h \in {U, S1, Literal(1)}}

\* Goals and initial states with memory; every goal of the family can be
\* satisfied from its initial state.
MemoryCases ==
    { \* optimizer.rs:350-383 (test_min_distance), on a one-word allocation
      Case(MkState(<<S1>>, << >>, << >>),
           MkState(<<R0>>, << >>, << <<S1>> >>)),
      \* a two-word allocation that refers to itself
      Case(MkState(<<S1>>, << >>, << >>),
           MkState(<<R0, S1>>, << >>, << <<S1, R0>> >>)),
      \* an allocation that refers to another one
      Case(MkState(<<S1>>, << >>, << >>),
           MkState(<<R0>>, << >>, << <<R1>>, <<S1>> >>)),
      \* reading out of memory
      Case(MkState(<<R0>>, << >>, << <<S1>> >>),
           MkState(<<S1>>, << >>, << >>)),
      Case(MkState(<<R0>>, << >>, << <<S1>> >>),
           MkState(<<U, U, S1>>, << >>, << >>)),
      Case(MkState(<<R0, R0>>, << >>, << <<S1, L3>> >>),
           MkState(<<L3, S1>>, << >>, << >>)),
      \* a second allocation next to an existing one; the goal numbers the
      \* two allocations the other way round
      Case(MkState(<<R0>>, << >>, << <<U>> >>),
           MkState(<<R1, R0>>, << >>, << <<U>>, <<U>> >>)),
      Case(MkState(<<R0>>, << >>, << <<U>> >>),
           MkState(<<R0, R1>>, << >>, << <<U>>, <<U>> >>)),
      \* dropping an allocation
      Case(MkState(<<R0, R1>>, << >>, << <<S1>>, <<S2>> >>),
           MkState(<<S2>>, << >>, << >>)) }

\* Goals with two literals or two allocation sizes, whose hash sets have
\* more than one iteration order.
OrderCases ==
    { Case(DefaultState, MkState(<<L3, Literal(0)>>, << >>, << >>)),
      Case(DefaultState, MkState(<<L3, L3, Literal(0)>>, << >>, << >>)),
      Case(MkState(<<L3>>, << >>, << >>),
           MkState(<<Literal(5), L3, Literal(5)>>, << >>, << >>)),
      Case(MkState(<<S1>>, << >>, << >>),
           MkState(<<L3, Literal(0), S1>>, << >>, << >>)),
      Case(DefaultState, MkState(<<R0, R1>>, << >>, << <<U>>, <<U, U>> >>)),
      Case(MkState(<<R0>>, << >>, << <<U>> >>),
           MkState(<<R0, R1>>, << >>, << <<U>>, <<U, U>> >>)) }

\* Register shuffles: distinct symbols exchanged pairwise, every other
\* register Unspecified in both states.
ShuffleCases ==
    { Case(MkState(<<S1, S2>>, << >>, << >>),
           MkState(<<S2, S1>>, << >>, << >>)),
      Case(MkState(<<S1, U, S2>>, << >>, << >>),
           MkState(<<S2, U, S1>>, << >>, << >>)),
      Case(MkState(<<U, S1, U, S2>>, << >>, << >>),
           MkState(<<U, S2, U, S1>>, << >>, << >>)),
      Case(MkState(<<Symbol(0), S1, S2, Symbol(3)>>, << >>, << >>),
           MkState(<<Symbol(3), S2, S1, Symbol(0)>>, << >>, << >>)),
      Case(MkState(<<Symbol(0), S1, S2, Symbol(3)>>, << >>, << >>),
           MkState(<<S1, Symbol(0), Symbol(3), S2>>, << >>, << >>)),
      Case(MkState(<<Symbol(0), S1, S2, Symbol(3)>>, << >>, << >>),
           MkState(<<S2, Symbol(3), Symbol(0), S1>>, << >>, << >>)) }

PlanCases ==
    GridCases \cup FlagCases \cup MemoryCases \cup OrderCases \cup ShuffleCases

\* Goals that no state the transitions produce satisfies (a flag, which no
\* transition writes; a Reference with an offset, which no transition
\* creates) and that name an allocation size.
DivergeCases ==
    { Case(DefaultState,
           MkState(<<R0>>, <<Literal(1)>>, << <<U>> >>)),
      Case(MkState(<<S1>>, << >>, << >>),
           MkState(<<R0>>, <<S1>>, << <<U>> >>)),
      Case(DefaultState,
           MkState(<<Reference(0, 1)>>, << >>, << <<U, U>> >>)) }

TiePolicies == {"deepest", "oldest", "newest"}

PlannerInit(cases, policies, cap) ==
    /\ \E c \in cases : initial = c.initial /\ goal = c.goal
    /\ pc = "start"
    /\ parents = << >>
    /\ to_see = {}
    /\ nodes_explored = 0
    /\ path = << >>
    /\ result = << >>
    /\ tie \in policies
    /\ max_allocs = cap
    /\ cpu = CpuOff
    /\ SinksIdle
    /\ MachineIdle

Init == PlannerInit(PlanCases, TiePolicies, MaxAllocs)

Next == Start \/ Found \/ Expand \/ Exhausted \/ Reconstruct \/ Boot \/ Exec

Spec == Init /\ [][Next]_vars

\* The search on goals that cannot be satisfied.
DivergeInit == PlannerInit(DivergeCases, {"deepest"}, MaxDivergeAllocs)

DivergeNext == Start \/ Expand \/ Overflow

DivergeSpec == DivergeInit /\ [][DivergeNext]_vars

---------------------------------------------------------------------------
(* The machine as a state machine: transitions applied one at a time       *)

\* Operands the walk draws from.
WalkLiterals == {0, 3}
WalkOffsets == {0, 1}
WalkSizes == {1, 2}

\* Initial states of the walk, each with a goal to compare against. The
\* states cover registers only, one allocation, an allocation that refers
\* to itself, two that refer to each other, and a goal whose two
\* allocations are referred to by each other only.
WalkCases ==
    { Case(DefaultState, MkState(<<L3, L3>>, << >>, << >>)),
      Case(MkState(<<S1, S2>>, << >>, << >>),
           MkState(<<R0>>, << >>, << <<S1>> >>)),
      Case(MkState(<<R0>>, << >>, << <<U>> >>),
           MkState(<<R1, R0>>, << >>, << <<U>>, <<U>> >>)),
      Case(MkState(<<R0, S1>>, << >>, << <<R0, S1>> >>),
           MkState(<<R0>>, << >>, << <<R0, S1>> >>)),
      Case(MkState(<<R0>>, <<S2>>, << <<R1>>, <<R0, L3>> >>),
           MkState(<<R0>>, << >>, << <<R1>>, <<R0, U>> >>)),
      Case(DefaultState, MkState(<< >>, << >>, << <<R1, S1>>, <<R0>> >>)),
      \* a flag that holds a Reference, which is_valid rejects
      Case(MkState(<<R0>>, <<R0>>, << <<S1>> >>),
           MkState(<<S1>>, <<R0>>, << <<S1>> >>)),
      \* a goal with an allocation of no slots
      Case(MkState(<<S1>>, << >>, << >>),
           MkState(<<R0>>, << >>, << << >> >>)),
      \* a Reference into the middle of an allocation
      Case(MkState(<<Reference(0, 1), S1>>, << >>, << <<S1, S2>> >>),
           MkState(<<R0, Reference(0, 1)>>, << >>, << <<S1, S2>> >>)) }

WalkInit ==
    /\ \E c \in WalkCases : initial = c.initial /\ goal = c.goal
    /\ state = initial
    /\ prev = initial
    /\ last = NoTransition
    /\ steps = 0
    /\ cost = 0
    /\ PlannerIdle
    /\ SinksIdle

\* The engine applies transitions to valid states only (optimizer.rs:22
\* drops every invalid successor), and the effect has to be defined.
CanStep(t) ==
    /\ steps < MaxSteps
    /\ is_valid(state)
    /\ ApplyDefined(t, state)

\* The bookkeeping of one step of the walk.
Record(t) ==
    /\ prev' = state
    /\ last' = t
    /\ steps' = steps + 1
    /\ cost' = cost + Cost(t)

DoSet ==
    \E dest \in Regs, value \in WalkLiterals :
        /\ CanStep(Set(dest, value))
        /\ state' = apply(Set(dest, value), state)
        /\ Record(Set(dest, value))
        /\ UNCHANGED <<planVars, cpu, sinkVars>>

DoCopy ==
    \E dest \in Regs, source \in Regs :
        /\ CanStep(Copy(dest, source))
        /\ state' = apply(Copy(dest, source), state)
        /\ Record(Copy(dest, source))
        /\ UNCHANGED <<planVars, cpu, sinkVars>>

DoSwap ==
    \E dest \in Regs, source \in Regs :
        /\ CanStep(Swap(dest, source))
        /\ state' = apply(Swap(dest, source), state)
        /\ Record(Swap(dest, source))
        /\ UNCHANGED <<planVars, cpu, sinkVars>>

DoRead ==
    \E dest \in Regs, source \in Regs, offset \in WalkOffsets :
        /\ CanStep(Read(dest, source, offset))
        /\ state' = apply(Read(dest, source, offset), state)
        /\ Record(Read(dest, source, offset))
        /\ UNCHANGED <<planVars, cpu, sinkVars>>

DoWrite ==
    \E dest \in Regs, source \in Regs, offset \in WalkOffsets :
        /\ CanStep(Write(dest, offset, source))
        /\ state' = apply(Write(dest, offset, source), state)
        /\ Record(Write(dest, offset, source))
        /\ UNCHANGED <<planVars, cpu, sinkVars>>

DoAlloc ==
    \E dest \in Regs, sz \in WalkSizes :
        /\ CanStep(Alloc(dest, sz))
        /\ state' = apply(Alloc(dest, sz), state)
        /\ Record(Alloc(dest, sz))
        /\ UNCHANGED <<planVars, cpu, sinkVars>>

DoDrop ==
    \E dest \in Regs :
        /\ CanStep(Drop(dest))
        /\ state' = apply(Drop(dest), state)
        /\ Record(Drop(dest))
        /\ UNCHANGED <<planVars, cpu, sinkVars>>

WalkNext == DoSet \/ DoCopy \/ DoSwap \/ DoRead \/ DoWrite \/ DoAlloc \/ DoDrop

MachineSpec == WalkInit /\ [][WalkNext]_vars

---------------------------------------------------------------------------
(* The emitter as a state machine: one transition assembled into fresh sinks *)

\* Operands the emitter is run on: all sixteen registers, values at the
\* borders of the three encodings of Set, slot offsets at the borders of
\* the 8-bit and of the 32-bit displacement, sizes at the border of the 8-bit immediate.
EmitRegs == 0 .. 15
EmitValues ==
    {U64(0), U64(1), U64(3), <<0, 0, 32767, 65535>>, <<0, 0, 32768, 0>>,
     <<0, 0, 65535, 65535>>, <<0, 1, 0, 0>>, <<0, 1, 0, 1>>,
     <<32768, 0, 0, 0>>, <<65535, 65535, 65535, 65535>>}
EmitOffsets ==
    {-17, -16, -1, 0, 1, 15, 16,
     268435455, 268435456, 536870912, -268435456, -268435457}
EmitSizes == {1, 2, 127, 128}

EmitInit ==
    /\ sink_offset = 0
    /\ sink_bytes = << >>
    /\ initial = DefaultState
    /\ goal = DefaultState
    /\ PlannerIdle
    /\ MachineIdle

\* Both sinks are fresh, as the one Transition::size creates.
CanAssemble == last = NoTransition /\ sink_offset = 0 /\ sink_bytes = << >>

AssembleSet ==
    \E dest \in EmitRegs, value \in EmitValues :
        /\ CanAssemble
        /\ last' = SetU64(dest, value)
        /\ sink_offset' = Feed(OffsetAssembler, sink_offset,
                               assemble(SetU64(dest, value)))
        /\ sink_bytes' = Feed(Recorder, sink_bytes,
                              assemble(SetU64(dest, value)))
        /\ UNCHANGED <<planVars, cpu, state, prev, steps, cost>>

AssembleCopy ==
    \E dest \in EmitRegs, source \in EmitRegs :
        /\ CanAssemble
        /\ last' = Copy(dest, source)
        /\ sink_offset' = Feed(OffsetAssembler, sink_offset,
                               assemble(Copy(dest, source)))
        /\ sink_bytes' = Feed(Recorder, sink_bytes,
                              assemble(Copy(dest, source)))
        /\ UNCHANGED <<planVars, cpu, state, prev, steps, cost>>

AssembleSwap ==
    \E dest \in EmitRegs, source \in EmitRegs :
        /\ CanAssemble
        /\ last' = Swap(dest, source)
        /\ sink_offset' = Feed(OffsetAssembler, sink_offset,
                               assemble(Swap(dest, source)))
        /\ sink_bytes' = Feed(Recorder, sink_bytes,
                              assemble(Swap(dest, source)))
        /\ UNCHANGED <<planVars, cpu, state, prev, steps, cost>>

AssembleRead ==
    \E dest \in EmitRegs, source \in EmitRegs, k \in EmitOffsets :
        /\ CanAssemble
        /\ last' = Read(dest, source, k)
        /\ sink_offset' = Feed(OffsetAssembler, sink_offset,
                               assemble(Read(dest, source, k)))
        /\ sink_bytes' = Feed(Recorder, sink_bytes,
                              assemble(Read(dest, source, k)))
        /\ UNCHANGED <<planVars, cpu, state, prev, steps, cost>>

AssembleWrite ==
    \E dest \in EmitRegs, source \in EmitRegs, k \in EmitOffsets :
        /\ CanAssemble
        /\ last' = Write(dest, k, source)
        /\ sink_offset' = Feed(OffsetAssembler, sink_offset,
                               assemble(Write(dest, k, source)))
        /\ sink_bytes' = Feed(Recorder, sink_bytes,
                              assemble(Write(dest, k, source)))
        /\ UNCHANGED <<planVars, cpu, state, prev, steps, cost>>

AssembleAlloc ==
    \E dest \in EmitRegs, sz \in EmitSizes :
        /\ CanAssemble
        /\ last' = Alloc(dest, sz)
        /\ sink_offset' = Feed(OffsetAssembler, sink_offset,
                               assemble(Alloc(dest, sz)))
        /\ sink_bytes' = Feed(Recorder, sink_bytes,
                              assemble(Alloc(dest, sz)))
        /\ UNCHANGED <<planVars, cpu, state, prev, steps, cost>>

AssembleDrop ==
    \E dest \in EmitRegs :
        /\ CanAssemble
        /\ last' = Drop(dest)
        /\ sink_offset' = Feed(OffsetAssembler, sink_offset,
                               assemble(Drop(dest)))
        /\ sink_bytes' = Feed(Recorder, sink_bytes, assemble(Drop(dest)))
        /\ UNCHANGED <<planVars, cpu, state, prev, steps, cost>>

EmitNext ==
    \/ AssembleSet \/ AssembleCopy \/ AssembleSwap \/ AssembleRead
    \/ AssembleWrite \/ AssembleAlloc \/ AssembleDrop

EmitSpec == EmitInit /\ [][EmitNext]_vars

---------------------------------------------------------------------------
(* Properties of the planner (Spec)                                        *)

\* C1 (planner soundness): when transition_to returns a sequence for a
\* valid initial state and a valid reachable goal, applying the sequence in
\* order to the initial state yields a state that satisfies the goal.
C1_Soundness ==
    (pc = "done" /\ is_valid(initial) /\ is_valid(goal) /\ reachable(initial, goal))
        => satisfies(ApplyAll(result, initial), goal)

C1_Witness ==
    /\ pc = "done"
    /\ is_valid(initial) /\ is_valid(goal)
    /\ Len(result) >= 3
    /\ goal.allocations # << >>
    /\ \E i \in 1 .. Len(result) : result[i].op = "Write"

\* C2 (planner optimality): the returned sequence costs no more than any
\* other sequence of transitions from the initial state through valid
\* states to a state satisfying the goal; every node of astar's parents map
\* stands for such a sequence, of the cost the map records.
C2_Optimality ==
    (pc = "done" /\ is_valid(initial) /\ is_valid(goal))
        => \A n \in DOMAIN parents :
               satisfies(n, goal) => TotalCost(result) <= parents[n].cost

\* C3 (unreachable goal): when the goal has a symbol the initial state
\* lacks, the planner fails at its assertion before any node is expanded
\* and returns no transition.
C3_UnreachableFailsFast ==
    (is_valid(initial) /\ is_valid(goal) /\ ~(symbols(goal) \subseteq symbols(initial)))
        => /\ pc \in {"start", "unreachable"}
           /\ nodes_explored = 0
           /\ parents = << >>
           /\ to_see = {}
           /\ path = << >>
           /\ result = << >>

C3_Witness ==
    /\ pc = "unreachable"
    /\ is_valid(initial) /\ is_valid(goal)
    /\ ~(symbols(goal) \subseteq symbols(initial))

\* C4 (completeness of the transition set): for a valid state and a valid
\* reachable goal some sequence of transitions leads to a state satisfying
\* the goal, so the search over the graph of transitions never exhausts
\* the graph without meeting such a state.
C4_Complete ==
    (is_valid(initial) /\ is_valid(goal) /\ reachable(initial, goal)) => pc # "no_path"

\* C5 (planner termination): the search ends by popping a node that
\* satisfies the goal or by emptying its heap; it does not keep popping
\* nodes with ever more allocations.
C5_Terminates ==
    (is_valid(initial) /\ is_valid(goal) /\ reachable(initial, goal)) => pc # "overflow"

\* C7 (admissibility): the heuristic distance of a state is at most the
\* cost of the cheapest sequence to a state satisfying the goal, hence at
\* most the cost of the sequence the planner returns.
C7_Admissible ==
    (pc = "done" /\ is_valid(initial) /\ is_valid(goal))
        => min_distance(initial, goal) <= TotalCost(result)

\* C8 (consistency): for every useful transition t of a valid state s with
\* post-state s', min_distance(s, g) <= cost(t) + min_distance(s', g). A
\* post-state the goal cannot be reached from has distance usize::MAX and
\* is left out: the inequality is met there.
C8_Consistent ==
    (pc = "start" /\ is_valid(initial) /\ is_valid(goal) /\ reachable(initial, goal)
        /\ min_distance(initial, goal) # PANIC)
        => \A order \in HashOrders(goal) :
           \A i \in 1 .. Len(useful_transitions(initial, goal, order)) :
               LET t == useful_transitions(initial, goal, order)[i]
                   post == apply(t, initial)
               IN  (is_valid(post) /\ reachable(post, goal)
                        /\ min_distance(post, goal) # PANIC)
                       => min_distance(initial, goal)
                              <= Cost(t) + min_distance(post, goal)

\* C12 (state equality up to allocation permutation): two search nodes
\* that differ only by a permutation of their allocations, References
\* renamed accordingly, are one node of astar's map of seen nodes.
C12_PermutedNodesEqual ==
    \A n \in DOMAIN parents : \A m \in DOMAIN parents :
        SameUpToPermutation(n, m) => n = m

\* C13 (round trip to the concrete machine): when the code emitted for
\* the returned transitions has run on a machine that held the initial
\* state, every register the goal specifies holds the goal's literal or
\* symbol value, or the address of an allocation whose eight-byte slots
\* hold what the goal prescribes.
C13_RoundTrip ==
    (cpu.status \in {"halted", "fault"} /\ is_valid(initial) /\ is_valid(goal))
        => /\ cpu.status = "halted"
           /\ \A r \in Regs :
                  Holds(cpu, goal, cpu.regs[r], goal.registers[r], {})

\* C14 (cost determinism): whatever order the hash sets of goal literals
\* and allocation sizes iterate in, call by call, the returned sequence
\* costs what the run with both sets in ascending order returns.
C14_CostDeterministic ==
    (pc = "done" /\ cpu.status = "off" /\ is_valid(initial) /\ is_valid(goal))
        => TotalCost(result)
               = TotalCost(transition_to(initial, goal, tie,
                                         AscendingOrder(goal)).transitions)

C14_Witness ==
    /\ pc = "done"
    /\ cpu.status = "off"
    /\ is_valid(initial) /\ is_valid(goal)
    /\ Cardinality(HashOrders(goal)) > 1
    /\ result # << >>
    /\ \E order \in HashOrders(goal) :
           /\ order # AscendingOrder(goal)
           /\ result = transition_to(initial, goal, tie, order).transitions
           /\ result # transition_to(initial, goal, tie,
                                     AscendingOrder(goal)).transitions

C16_ShufflesBySwaps ==
    LET held == {r \in Regs : is_specified(initial.registers[r])}
        pairs == {p \in held \X held :
                     /\ p[1] < p[2]
                     /\ goal.registers[p[1]] = initial.registers[p[2]]
                     /\ goal.registers[p[2]] = initial.registers[p[1]]}
        shuffle ==
            /\ initial.allocations = << >> /\ goal.allocations = << >>
            /\ \A f \in Flags : initial.flags[f] = U /\ goal.flags[f] = U
            /\ held # {}
            /\ \A r \in Regs : is_specified(goal.registers[r]) <=> r \in held
            /\ \A r \in held : initial.registers[r].tag = "S"
            /\ \A r, q \in held :
                   initial.registers[r] = initial.registers[q] => r = q
            /\ \A r \in held : \E p \in pairs : r \in {p[1], p[2]}
    IN  (shuffle /\ pc \in {"done", "no_reproduce", "unreachable", "panic",
                            "no_path"})
            => /\ pc = "done"
               /\ Len(result) = Cardinality(pairs)
               /\ \A p \in pairs : \E i \in 1 .. Len(result) :
                      /\ result[i].op = "Swap"
                      /\ {result[i].dest, result[i].source} = {p[1], p[2]}

C16_Witness ==
    /\ pc = "done"
    /\ initial.registers = RegFile(<<Symbol(0), S1, S2, Symbol(3)>>)
    /\ goal.registers = RegFile(<<Symbol(3), S2, S1, Symbol(0)>>)
    /\ Len(result) = 2
    /\ \A i \in 1 .. 2 : result[i] \in {Swap(3, 0), Swap(2, 1)}

\* The nodes astar holds: those of its map of seen nodes, which every node
\* of the open set and of the returned path belongs to.
SearchNodes ==
    DOMAIN parents \cup {e.node : e \in to_see}
        \cup {path[i] : i \in 1 .. Len(path)}

\* C31 (search nodes stay valid and goal-reachable): every state the
\* planner adds to its open set, and so every state of the returned path,
\* is valid and holds every Symbol of the goal; a successor that fails
\* either test is discarded.
C31_NodesValidReachable ==
    \A n \in SearchNodes :
        /\ is_valid(n)
        /\ {v.a : v \in {w \in StateValues(goal) : w.tag = "S"}}
               \subseteq {v.a : v \in {w \in StateValues(n) : w.tag = "S"}}

\* A finished search of three nodes or more on whose path some useful
\* transition leads to an invalid state and another to a state that lost
\* a Symbol of the goal; neither state was kept.
C31_Witness ==
    /\ pc = "done"
    /\ Len(path) >= 3
    /\ \E i \in 1 .. Len(path) :
           LET ts == useful_transitions(path[i], goal, AscendingOrder(goal))
           IN  /\ \E k \in 1 .. Len(ts) :
                      /\ ~is_valid(apply(ts[k], path[i]))
                      /\ apply(ts[k], path[i]) \notin DOMAIN parents
               /\ \E k \in 1 .. Len(ts) :
                      /\ is_valid(apply(ts[k], path[i]))
                      /\ ~reachable(apply(ts[k], path[i]), goal)
                      /\ apply(ts[k], path[i]) \notin DOMAIN parents

\* The useful transitions of `from` whose post-state equals `to`.
Matching(from, to) ==
    LET ts == useful_transitions(from, goal, AscendingOrder(goal))
    IN  {ts[k] : k \in {j \in 1 .. Len(ts) : apply(ts[j], from) = to}}

\* The cost astar returns next to the path: the cost of the heap entry of
\* the satisfying node it popped, which is the cost its map holds for
\* that node (C32_ReportedIsRecorded).
ReportedCost == parents[path[Len(path)]].cost

\* C32 (path reconstruction): for every consecutive pair (from, to) of the
\* node path astar returned, some useful transition of `from` has the
\* post-state `to`, the reconstruction picks one of least cost among
\* those, it never fails with 'Could not reproduce path', and the costs of
\* the picked transitions add up to the path cost astar reported.
C32_Reconstruction ==
    /\ pc # "no_reproduce"
    /\ pc = "search" /\ to_see # {}
            /\ satisfies(Pop(to_see, parents, tie).node, goal)
          => Pop(to_see, parents, tie).cost
                 = parents[Pop(to_see, parents, tie).node].cost
    /\ pc = "done" =>
          /\ Len(result) = Len(path) - 1
          /\ \A i \in 1 .. (Len(path) - 1) :
                 /\ result[i] \in Matching(path[i], path[i + 1])
                 /\ \A t \in Matching(path[i], path[i + 1]) :
                        Cost(result[i]) <= Cost(t)
          /\ TotalCost(result) = ReportedCost

\* A returned sequence of two transitions or more, one of them picked
\* among useful transitions of different cost that lead to the same state.
C32_Witness ==
    /\ pc = "done"
    /\ Len(result) >= 2
    /\ \E i \in 1 .. Len(result) :
           \E t \in Matching(path[i], path[i + 1]) : Cost(t) > Cost(result[i])
    /\ TotalCost(result) = ReportedCost

\* C33 (the heuristic is total on reachable inputs): for a valid state s
\* and a valid goal g with reachable(s, g), min_distance(s, g) is a finite
\* value and no assertion of register_set_cost fails, also when a Symbol
\* of the goal occurs in s in a flag only or inside an allocation only.
C33_HeuristicTotal ==
    \A s \in {initial} \cup SearchNodes :
        is_valid(s) /\ is_valid(goal) /\ reachable(s, goal)
            => /\ ~MinDistancePanics(s, goal)
               /\ min_distance(s, goal) # PANIC
               /\ min_distance(s, goal) < USIZE_MAX

\* C34 (the heuristic vanishes at the goal): for a valid state s and a
\* valid goal g with satisfies(s, g), min_distance(s, g) = 0, also when the
\* allocations of s that match those of g sit at other indices, so that
\* the References held in allocation slots differ in index from the goal's.
C34_ZeroAtGoal ==
    \A s \in SearchNodes :
        is_valid(s) /\ is_valid(goal) /\ satisfies(s, goal)
            => min_distance(s, goal) = 0

\* The free-memory pointer of the concrete machine: the four bytes the
\* emitted Alloc loads from ram_start.
HeapHead == Address(ZeroExtend(Load(cpu.ram, RamStart, 4)))

\* The machine was started on an initial state without allocations and
\* has run no Alloc yet.
FreshHeap ==
    /\ cpu.status # "off"
    /\ initial.allocations = << >>
    /\ \A k \in 1 .. (cpu.ip - 1) : result[k].op # "Alloc"

\* The machine has just run its first Alloc on a heap nothing was
\* allocated in.
FirstAllocDone ==
    /\ cpu.status # "off"
    /\ initial.allocations = << >>
    /\ cpu.ip >= 2
    /\ result[cpu.ip - 1].op = "Alloc"
    /\ \A k \in 1 .. (cpu.ip - 2) : result[k].op # "Alloc"

\* C38 (initial heap head): the free-pointer word at HEAP_HEAD is
\* initialised to HEAP_HEAD + 8, so the address range of the first
\* allocation does not overlap the head word.
C38_InitialHead ==
    /\ FreshHeap => HeapHead = RamStart + 8
    /\ FirstAllocDone
          => Address(cpu.regs[result[cpu.ip - 1].dest]) >= RamStart + 4

\* C38 as the code has it: the free-pointer word at HEAP_HEAD, four bytes
\* wide, is initialised to HEAP_HEAD + 4, the first address behind it, so
\* the address range of the first allocation does not overlap the head
\* word.
C38_InitialHeadPlus4 ==
    /\ FreshHeap => HeapHead = RamStart + 4
    /\ FirstAllocDone
          => /\ IsAddress(cpu.regs[result[cpu.ip - 1].dest])
             /\ Address(cpu.regs[result[cpu.ip - 1].dest]) = RamStart + 4
             /\ Address(cpu.regs[result[cpu.ip - 1].dest]) >= RamStart + 4

\* The emitted code of a plan ran its first Alloc on the initial RAM.
C38_Witness ==
    /\ FirstAllocDone
    /\ HeapHead > RamStart + 4

\* C39 (allocations do not overlap in memory): every emitted Alloc{dest,
\* size} that runs returns the head in dest and advances the head by at
\* least 8 * size bytes, so that the byte ranges [p, p + 8 * size) of the
\* returned pointers are pairwise disjoint and a Write to a slot of one
\* allocation never changes a slot of another.
C39_AllocDisjoint ==
    [][(cpu.status = "run" /\ result[cpu.ip].op = "Alloc")
          => /\ Address(cpu'.regs[result[cpu.ip].dest]) = HeapHead
             /\ HeapHead' >= HeapHead + 8 * result[cpu.ip].size]_vars

---------------------------------------------------------------------------
(* Properties of the machine (MachineSpec)                                 *)

\* C6 (validity preservation): a transition that applies to a valid state
\* leaves a valid state.
C6_ValidityPreserved ==
    (last # NoTransition /\ is_valid(prev) /\ applies(last, prev))
        => is_valid(state)

\* C9 (reflexivity of satisfaction): every valid state satisfies itself,
\* also when its allocations refer to each other or to themselves.
C9_Reflexive == is_valid(state) => satisfies(state, state)

C9_Witness ==
    /\ is_valid(state)
    /\ steps > 0
    /\ Len(state.allocations) = 2
    /\ \E k \in 1 .. Len(state.allocations[1]) :
           state.allocations[1][k] = Reference(1, 0)
    /\ \E k \in 1 .. Len(state.allocations[2]) :
           state.allocations[2][k] = Reference(0, 0)
    /\ satisfies(state, state)

\* C21 (satisfaction semantics): satisfies(s, g) holds exactly when every
\* register and flag slot of s matches its slot of g, and so does every
\* pair of allocations reached from them through matched References: a
\* goal Unspecified matches anything, a goal Literal or Symbol matches the
\* equal value, a goal Reference matches a Reference of the same offset,
\* and paired allocations have equal length.
C21_SatisfiesSemantics ==
    \A g \in {goal, initial, prev, state} :
        LET s == state
            matches(a, b) ==
                \/ b = Unspecified
                \/ b.tag \in {"L", "S"} /\ a = b
                \/ b.tag = "R" /\ a.tag = "R" /\ a.b = b.b
            linked(a, b) == b.tag = "R" /\ a.tag = "R" /\ a.b = b.b
            all == (0 .. (Len(s.allocations) - 1))
                       \X (0 .. (Len(g.allocations) - 1))
            roots == {<<s.registers[r].a, g.registers[r].a>> :
                         r \in {q \in Regs :
                                   linked(s.registers[q], g.registers[q])}}
                     \cup {<<s.flags[f].a, g.flags[f].a>> :
                              f \in {q \in Flags :
                                        linked(s.flags[q], g.flags[q])}}
            common(p) == 1 .. Min(Len(s.allocations[p[1] + 1]),
                                  Len(g.allocations[p[2] + 1]))
            step(p) == {<<s.allocations[p[1] + 1][k].a,
                          g.allocations[p[2] + 1][k].a>> :
                           k \in {j \in common(p) :
                                     linked(s.allocations[p[1] + 1][j],
                                            g.allocations[p[2] + 1][j])}}
            closed(X) == roots \subseteq X /\ \A p \in X : step(p) \subseteq X
            paired == {p \in all : \A X \in SUBSET all : closed(X) => p \in X}
        IN  (is_valid(s) /\ is_valid(g))
                => (satisfies(s, g)
                    <=> /\ \A r \in Regs : matches(s.registers[r], g.registers[r])
                        /\ \A f \in Flags : matches(s.flags[f], g.flags[f])
                        /\ \A p \in paired :
                               /\ Len(s.allocations[p[1] + 1])
                                      = Len(g.allocations[p[2] + 1])
                               /\ \A k \in common(p) :
                                      matches(s.allocations[p[1] + 1][k],
                                              g.allocations[p[2] + 1][k]))

\* A state that satisfies a goal whose allocations are numbered the other
\* way round.
C21_Witness ==
    /\ is_valid(state) /\ is_valid(goal)
    /\ last # NoTransition
    /\ satisfies(state, goal)
    /\ state.registers[0] = R0 /\ goal.registers[0] = R1
    /\ Len(goal.allocations) = 2

\* C22 (cycle-safe satisfaction): on valid states whose allocations refer
\* to themselves or to each other the loop of satisfies ends, and no pair
\* of (state allocation, goal allocation) is compared in two rounds.
C22_CycleSafe ==
    \A g \in {goal, initial, prev, state} :
        LET run == SatRounds(state, g,
                             RefPairs(state.registers, g.registers, Regs)
                                 \cup RefPairs(state.flags, g.flags, Flags),
                             {}, << >>)
        IN  (is_valid(state) /\ is_valid(g))
                => /\ run.ended
                   /\ \A i, j \in 1 .. Len(run.rounds) :
                          i # j => run.rounds[i] \cap run.rounds[j] = {}
                   /\ Len(run.rounds)
                          <= Len(state.allocations) * Len(g.allocations)

\* Two allocations that refer to each other: the second round finds the
\* pair of the first again and the loop ends.
C22_Witness ==
    LET run == SatRounds(state, state,
                         RefPairs(state.registers, state.registers, Regs), {},
                         << >>)
    IN  /\ is_valid(state)
        /\ last # NoTransition
        /\ Len(state.allocations) = 2
        /\ \E k \in 1 .. Len(state.allocations[1]) :
               state.allocations[1][k] = R1
        /\ \E k \in 1 .. Len(state.allocations[2]) :
               state.allocations[2][k] = R0
        /\ run.ended /\ run.result
        /\ run.rounds = << {<<0, 0>>}, {<<1, 1>>} >>

\* C23 (Write precondition): Write{dest, k, source} applies exactly when
\* register[dest] holds a Reference whose slot at offset k is in range and
\* register[source] is specified, whether or not register[source] is a
\* Reference itself.
C23_WritePrecondition ==
    last.op = "Write"
        => (applies(last, prev)
               <=> /\ resolve_read(prev, last.dest, last.offset) # NoValue
                   /\ is_specified(prev.registers[last.source]))

\* C24 (Copy effect and frame): Copy{dest, source} sets register[dest] to
\* the value of register[source] and leaves every other register,
\* register[source] included also when it holds a Reference, all flags and
\* all allocations as they were.
C24_CopyFrame ==
    (last.op = "Copy" /\ applies(last, prev))
        => LET post == State_apply_Copy(prev, last.dest, last.source)
           IN  /\ post.registers[last.dest] = prev.registers[last.source]
               /\ \A r \in Regs \ {last.dest} :
                      post.registers[r] = prev.registers[r]
               /\ post.flags = prev.flags
               /\ post.allocations = prev.allocations

\* C25 (Drop effect): Drop{dest} with register[dest] = Reference{i, _} in a
\* state of n allocations leaves n - 1 allocations, the former last one at
\* index i; a Reference to index i becomes Unspecified, a Reference to
\* index n - 1 gets index i and keeps its offset, every other value stays.
C25_DropSwapRemove ==
    (last.op = "Drop" /\ applies(last, prev))
        => LET n == Len(prev.allocations)
               i == prev.registers[last.dest].a
               after(v) ==
                   IF v.tag = "R" /\ v.a = i THEN Unspecified
                   ELSE IF v.tag = "R" /\ v.a = n - 1 THEN Reference(i, v.b)
                   ELSE v
               from(j) == IF j = i /\ i < n - 1 THEN n - 1 ELSE j
           IN  /\ Len(state.allocations) = n - 1
               /\ \A j \in 0 .. (n - 2) :
                      /\ Len(state.allocations[j + 1])
                             = Len(prev.allocations[from(j) + 1])
                      /\ \A k \in 1 .. Len(state.allocations[j + 1]) :
                             state.allocations[j + 1][k]
                                 = after(prev.allocations[from(j) + 1][k])
               /\ \A r \in Regs :
                      state.registers[r] = after(prev.registers[r])
               /\ \A f \in Flags : state.flags[f] = after(prev.flags[f])

\* The first of two allocations is dropped while another register refers to
\* the second, which moves to index 0.
C25_Witness ==
    /\ last.op = "Drop"
    /\ applies(last, prev)
    /\ Len(prev.allocations) = 2
    /\ prev.registers[last.dest] = R0
    /\ state.registers[last.dest] = Unspecified
    /\ \E r \in Regs : prev.registers[r] = R1 /\ state.registers[r] = R0
    /\ state.allocations = <<prev.allocations[2]>>

\* C26 (Alloc effect and frame): Alloc{dest, size} with size > 0 appends
\* one allocation of size Unspecified slots, sets register[dest] to the
\* Reference with the previous number of allocations as index and offset
\* 0, and leaves every other register, the flags and the existing
\* allocations, contents and indices, as they were.
C26_AllocFrame ==
    (last.op = "Alloc" /\ applies(last, prev))
        => LET n == Len(prev.allocations)
           IN  /\ Len(state.allocations) = n + 1
               /\ Len(state.allocations[n + 1]) = last.size
               /\ \A k \in 1 .. last.size :
                      state.allocations[n + 1][k] = Unspecified
               /\ state.registers[last.dest].tag = "R"
               /\ state.registers[last.dest].a = n
               /\ state.registers[last.dest].b = 0
               /\ \A r \in Regs \ {last.dest} :
                      state.registers[r] = prev.registers[r]
               /\ state.flags = prev.flags
               /\ \A j \in 1 .. n : state.allocations[j] = prev.allocations[j]

\* A two-slot allocation appended next to an existing one whose slots hold
\* values, into a register that held a value.
C26_Witness ==
    /\ last.op = "Alloc"
    /\ last.size = 2
    /\ applies(last, prev)
    /\ Len(prev.allocations) = 1
    /\ is_specified(prev.allocations[1][1])
    /\ is_specified(prev.registers[last.dest])
    /\ state.registers[last.dest] = R1
    /\ state.allocations = Append(prev.allocations, <<U, U>>)

C29_UsefulSet ==
    is_valid(state) =>
        \A g \in {goal, initial, prev} : \A order \in HashOrders(g) :
            LET s == state
                seq == useful_transitions(s, g, order)
                spec(r) == s.registers[r] # Unspecified
                isref(r) == s.registers[r].tag = "R"
                target(r) == s.allocations[s.registers[r].a + 1]
                slots(r) ==
                    {k \in -(Len(target(r)) + s.registers[r].b) .. Len(target(r)) :
                        /\ s.registers[r].b + k >= 0
                        /\ s.registers[r].b + k < Len(target(r))}
                slot(r, k) == target(r)[s.registers[r].b + k + 1]
            IN  {seq[i] : i \in 1 .. Len(seq)}
                  = {Set(d, v.a) : d \in Regs,
                         v \in {w \in StateValues(g) : w.tag = "L"}}
                    \cup {Copy(p[1], p[2]) :
                             p \in {q \in Regs \X Regs :
                                       spec(q[2]) /\ q[1] # q[2]}}
                    \cup {Swap(p[1], p[2]) :
                             p \in {q \in Regs \X Regs :
                                       q[2] < q[1] /\ spec(q[1]) /\ spec(q[2])}}
                    \cup UNION {UNION {
                              {Read(d, r, k) :
                                   d \in {e \in Regs :
                                             slot(r, k) # Unspecified}}
                              \cup {Write(r, k, src) :
                                        src \in {e \in Regs : spec(e)}} :
                              k \in slots(r)} :
                          r \in {e \in Regs : isref(e)}}
                    \cup {Alloc(d, Len(g.allocations[i])) :
                             d \in Regs, i \in 1 .. Len(g.allocations)}
                    \cup {Drop(r) : r \in {e \in Regs : isref(e)}}

\* After a step, a state with a register that refers into the middle of an
\* allocation, an unspecified register, and a goal with a Literal: all six
\* kinds of transition but Set and Alloc depend on the state.
C29_Witness ==
    /\ is_valid(state)
    /\ steps >= 1
    /\ \E r \in Regs : state.registers[r].tag = "R" /\ state.registers[r].b = 1
    /\ \E r \in Regs : state.registers[r] = Unspecified
    /\ \E op \in {"Read", "Write", "Drop", "Swap", "Copy"} :
           \E i \in 1 .. Len(useful_transitions(state, goal, AscendingOrder(goal))) :
               useful_transitions(state, goal, AscendingOrder(goal))[i].op = op
    /\ Len(useful_transitions(state, initial, AscendingOrder(initial))) > 0

\* C30 (generated transitions are applicable): for every valid state s and
\* valid goal g, in whatever order the hash sets iterate, every transition
\* of useful_transitions(s, g) satisfies applies on s.
C30_GeneratedApply ==
    is_valid(state) /\ is_valid(goal) =>
        \A order \in HashOrders(goal) :
            \A i \in 1 .. Len(useful_transitions(state, goal, order)) :
                applies(useful_transitions(state, goal, order)[i], state)

\* C35 (satisfaction respects aliasing): when satisfies(s, g) holds and
\* two slots of g hold References to the same allocation of g, the
\* corresponding slots of s hold References to the same allocation of s:
\* the pairs (allocation of s, allocation of g) the check compares form a
\* function from the allocations of g to those of s.
C35_AliasingRespected ==
    \A g \in {goal, initial, prev} :
        LET run == SatRounds(state, g,
                             RefPairs(state.registers, g.registers, Regs)
                                 \cup RefPairs(state.flags, g.flags, Flags),
                             {}, << >>)
            pairs == UNION {run.rounds[i] : i \in 1 .. Len(run.rounds)}
        IN  (is_valid(state) /\ is_valid(g) /\ satisfies(state, g))
                => /\ run.ended /\ run.result
                   /\ \A p \in pairs, q \in pairs :
                          p[2] = q[2] => p[1] = q[1]
                   /\ \A r \in Regs, q \in Regs :
                          (g.registers[r].tag = "R" /\ g.registers[q].tag = "R"
                              /\ g.registers[r].a = g.registers[q].a)
                          => state.registers[r].a = state.registers[q].a

\* C10 (reachability is necessary): when a valid state satisfies a valid
\* goal, or a sequence of transitions led to it from a valid state, the
\* goal's symbols are among the symbols of the state it started from.
C10_ReachableNecessary ==
    (is_valid(initial) /\ is_valid(goal) /\ is_valid(state) /\ satisfies(state, goal))
        => reachable(state, goal) /\ reachable(initial, goal)

\* C11 (symbol conservation): an applicable transition introduces no
\* symbol: the symbols of the post-state are among those of the registers,
\* flags and allocation slots of the pre-state.
C11_SymbolsConserved ==
    (last # NoTransition /\ applies(last, prev))
        => symbols(state) \subseteq symbols(prev)

C11_Witness ==
    /\ last.op = "Read"
    /\ applies(last, prev)
    /\ state.registers[last.dest].tag = "S"
    /\ \A r \in Regs : prev.registers[r] # state.registers[last.dest]
    /\ symbols(state) \subseteq symbols(prev)

\* C20 (no orphans): is_valid holds exactly when no Reference of a
\* register or an allocation slot names a missing allocation, every
\* allocation can be reached from a register through References (one
\* referred to by itself only, or by allocations no register reaches, is an
\* orphan), and every flag is Unspecified, a Symbol, or Literal 0 or 1.
C20_NoOrphans ==
    \A s \in {state, goal} :
        LET allocs == 1 .. Len(s.allocations)
            slots(i) == {s.allocations[i][k] : k \in 1 .. Len(s.allocations[i])}
            refs(V) == {v.a + 1 : v \in {w \in V : w.tag = "R"}}
            roots == refs({s.registers[r] : r \in Regs})
            closed(X) ==
                /\ roots \cap allocs \subseteq X
                /\ \A i \in X : refs(slots(i)) \cap allocs \subseteq X
            rooted == {i \in allocs :
                          \A X \in SUBSET allocs : closed(X) => i \in X}
        IN  is_valid(s)
                <=> /\ roots \subseteq allocs
                    /\ \A i \in allocs : refs(slots(i)) \subseteq allocs
                    /\ rooted = allocs
                    /\ \A f \in Flags :
                           \/ s.flags[f].tag \in {"U", "S"}
                           \/ s.flags[f] \in {Literal(0), Literal(1)}

---------------------------------------------------------------------------
(* Properties of the emitter (EmitSpec)                                    *)

\* C36 (self-moves are free): Copy{r, r} and Swap{r, r} emit no bytes,
\* count 0 cycles and cost 0; between distinct registers the cycle
\* estimates are 3 for Copy and 6 for Swap.
C36_SelfMovesFree ==
    last.op \in {"Copy", "Swap"}
        => IF last.dest = last.source
           THEN /\ sink_bytes = << >>
                /\ sink_offset = 0
                /\ time(last) = 0
                /\ Cost(last) = 0
           ELSE time(last) = (IF last.op = "Copy" THEN 3 ELSE 6)

\* The displacement an emitted Read or Write carries: the last byte as a
\* signed number when the ModRM byte selects the 8-bit form, the last four
\* bytes, little-endian and signed, when it selects the 32-bit form.
EncodedDisp(bytes) ==
    LET n == Len(bytes)
        signed(b) == IF b >= 128 THEN b - 256 ELSE b
    IN  IF bytes[3] \div 64 = 1 THEN signed(bytes[n])
        ELSE bytes[n - 3] + 256 * bytes[n - 2] + 65536 * bytes[n - 1]
                 + 16777216 * signed(bytes[n])

\* C37 (displacement width): a Read or Write of slot offset k is emitted
\* in the 8-bit displacement form exactly when -128 <= 8 * k <= 127, that
\* is for k in -16 .. 15, and in the 32-bit form otherwise, and in both
\* forms the encoded displacement is 8 * k, for every k the transition can
\* carry.
C37_DisplacementWidth ==
    last.op \in {"Read", "Write"}
        => /\ (sink_bytes[3] \div 64 = 1) <=> (-16 <= last.offset /\ last.offset <= 15)
           /\ sink_bytes[3] \div 64 \in {1, 2}
           /\ Len(sink_bytes) = (IF sink_bytes[3] \div 64 = 1 THEN 5 ELSE 8)
           /\ EncodedDisp(sink_bytes) % 8 = 0
           /\ EncodedDisp(sink_bytes) \div 8 = last.offset

\* C19 (size-sink agreement): after a transition is assembled, the offset
\* the OffsetAssembler reports, which is the transition's size, is the
\* number of bytes the byte-recording sink received for the same calls.
C19_SinksAgree ==
    last # NoTransition
        => /\ sink_offset = Len(sink_bytes)
           /\ size(last) = sink_offset

C19_Witness ==
    /\ last.op = "Write"
    /\ ~FitsI8(Disp32(last.offset))
    /\ sink_offset = 8
    /\ Len(sink_bytes) = 8

\* C18 (Set encoding sizes): Set{dest, v} is 2 bytes for v = 0, 5 bytes for
\* 1 <= v <= 2^32 - 1 and 10 bytes for v >= 2^32 when dest is one of 0..7,
\* and 3, 6 and 10 bytes when dest is one of 8..15, whatever v is within
\* its range.
C18_SetSizes ==
    last.op = "Set"
        => LET low == last.dest < 8
               bytes ==
                   IF last.value = <<0, 0, 0, 0>>
                   THEN (IF low THEN 2 ELSE 3)
                   ELSE IF last.value[1] = 0 /\ last.value[2] = 0
                   THEN (IF low THEN 5 ELSE 6)
                   ELSE 10
           IN  sink_offset = bytes /\ size(last) = bytes

C18_Witness ==
    /\ last.op = "Set"
    /\ last.dest = 15
    /\ last.value = <<0, 0, 65535, 65535>>
    /\ sink_offset = 6
    /\ size(last) = 6

\* C17 (cost formula, as claimed): cost(t) = size(t) * 10000 + cycles(t),
\* so that a transition of smaller size costs less than one of larger
\* size.
C17_SizeDominates ==
    last # NoTransition
        => /\ Cost(last) = size(last) * 10000 + time(last)
           /\ \A t \in {SetU64(0, <<0, 1, 0, 0>>), Swap(0, 1), Read(0, 1, 0),
                         Write(0, 16, 1), Alloc(0, 1), Drop(0)} :
                  size(last) < size(t) => Cost(last) < Cost(t)

\* C17 (cost formula, amended): cost(t) = cycles(t) * 100 + size(t), and
\* no size reaches 100, so that a transition of fewer cycles costs less
\* than one of more cycles and the size decides among equal cycles.
C17_CyclesDominate ==
    last # NoTransition
        => /\ Cost(last) = time(last) * 100 + sink_offset
           /\ sink_offset < 100
           /\ \A t \in {SetU64(0, <<0, 1, 0, 0>>), Swap(0, 1), Read(0, 1, 0),
                         Write(0, 16, 1), Alloc(0, 1), Drop(0)} :
                  /\ time(last) < time(t) => Cost(last) < Cost(t)
                  /\ (time(last) = time(t) /\ size(last) < size(t))
                         => Cost(last) < Cost(t)

C17_Witness ==
    /\ last = SetU64(0, <<0, 1, 0, 0>>)
    /\ sink_offset = 10
    /\ size(last) > size(Swap(0, 1))
    /\ Cost(last) < Cost(Swap(0, 1))

=============================================================================
